---- MODULE Spec2Model ----
(***************************************************************************)
(* State-machine model of the simulation core of zaynkorai/us-iran:        *)
(*   - EnvironmentManager (step, runEpisode, mountAgent, isPermitted,      *)
(*     applyMutation, parseTurnInjection) and the episode worker of the    *)
(*     orchestrator that hands the returned transcript to the Critic;      *)
(*   - the generation loop of runFullSimulation (mutation phase with       *)
(*     concurrent Mutator.evolve calls, creation phase, live roster);      *)
(*   - the acceptance gate of Mutator.evolve.                              *)
(***************************************************************************)
EXTENDS Integers, Sequences, FiniteSets, TLC

(***************************************************************************)
(* Bounds of the model and configuration values                            *)
(***************************************************************************)
\* FrameworkConfig values used by the Environment
MaxTurnsPerEpisode == 3
MaxEpisodeTokens == 3
ForcedConcessionThreshold == 2
InfoDisruptorFrequency == 3
SummarizationFrequency == 1
MaxActiveCreatedAgents == 1
MaxValidationRetries == 3
MaxConcurrency == 2
EpochSize == 3
ShadowTrialCount == 2
\* largest token usage one actor call reports
MaxCallTokens == 2
\* largest turn order a caller assigns before an episode
MaxInitialOrder == 2
MaxEnvironments == 2
CreationPatience == 3
\* FrameworkConfig.creation_cooldown_generations
CreationCooldownGenerations == 1

PrimaryIds == {"agent_a", "agent_b"}
CreatedIdPool == {"broker_01", "broker_02"}
DisruptorInfoId == "disruptor_info"
SummarizerId == "system_summarizer"
NoSpeaker == "none"

(***************************************************************************)
(* Paths, values and the variables tree                                    *)
(*                                                                         *)
(* A path is the string of the mutation, kept as a sequence of characters  *)
(* so that startsWith and split(".") are computed on characters.  The      *)
(* variables subtree is a function from key sequences to nodes; a node is  *)
(* either a number or an object (whose children are the longer keys).      *)
(***************************************************************************)
Dot == "."
P_cy == <<"c", Dot, "y">>
P_sy == <<"s", Dot, "y">>
P_s == <<"s">>
P_c == <<"c">>
TensionKey == << <<"g">> >>

NumNode(n) == [kind |-> "num", n |-> n]
ObjNode == [kind |-> "obj", n |-> 0]

\* String.prototype.startsWith
StartsWith(path, prefix) ==
    /\ Len(prefix) <= Len(path)
    /\ SubSeq(path, 1, Len(prefix)) = prefix

\* String.prototype.split(".") : the sequence of keys between the dots
RECURSIVE SplitFrom(_, _, _)
SplitFrom(path, i, cur) ==
    IF i > Len(path) THEN <<cur>>
    ELSE IF path[i] = Dot THEN <<cur>> \o SplitFrom(path, i + 1, << >>)
    ELSE SplitFrom(path, i + 1, Append(cur, path[i]))

Split(path) == SplitFrom(path, 1, << >>)

IsStrictPrefix(p, q) == Len(p) < Len(q) /\ SubSeq(q, 1, Len(p)) = p

\* current[key] = value : the key now holds the node, what hung below it is gone
SetNode(tree, keys, node) ==
    LET kept == {k \in DOMAIN tree : ~IsStrictPrefix(keys, k)} \cup {keys}
    IN [k \in kept |-> IF k = keys THEN node ELSE tree[k]]

\* the key that names the prototype of an object
ProtoKey == <<"_", "_", "p", "r", "o", "t", "o", "_", "_">>

\* the object the walk of applyMutation stands at: an object of the variables
\* tree, Object.prototype or an object that hangs below it, or null. The
\* properties added to Object.prototype are a tree of their own, shared by
\* every object of the process; the object a write to __proto__ installed as
\* the prototype of an object is kept below that object under ProtoKey and
\* is no property of it
InVariables(keys) == [in |-> "variables", keys |-> keys]
InPrototype(keys) == [in |-> "prototype", keys |-> keys]
ObjectPrototype == InPrototype(<< >>)
AtNull == [in |-> "null", keys |-> << >>]
NoPrototypeKeys == << >>

HeapOf(tree, proto, at) == IF at.in = "variables" THEN tree ELSE proto

\* Object.getPrototypeOf: Object.prototype for an object made by {} or by
\* structuredClone, the installed object after a write to __proto__, null
\* for Object.prototype
PrototypeOf(tree, proto, at) ==
    IF at = ObjectPrototype THEN AtNull
    ELSE IF Append(at.keys, ProtoKey) \in DOMAIN HeapOf(tree, proto, at)
         THEN [at EXCEPT !.keys = Append(@, ProtoKey)]
         ELSE ObjectPrototype

\* current[key] for a key other than __proto__, through the prototype chain.
\* The functions Object.prototype is born with (constructor, toString, ...)
\* count as not found: typeof says "function" of them, which the walk treats
\* as it treats a missing key
RECURSIVE Lookup(_, _, _, _)
Lookup(tree, proto, at, key) ==
    IF at = AtNull THEN [found |-> FALSE, kind |-> "undefined", at |-> AtNull]
    ELSE IF Append(at.keys, key) \in DOMAIN HeapOf(tree, proto, at)
         THEN [found |-> TRUE,
               kind |-> HeapOf(tree, proto, at)[Append(at.keys, key)].kind,
               at |-> [at EXCEPT !.keys = Append(@, key)]]
         ELSE Lookup(tree, proto, PrototypeOf(tree, proto, at), key)

\* key in current, and current[key]: __proto__ is found in every object and
\* is its prototype (typeof null is "object" as well)
Property(tree, proto, at, key) ==
    IF key = ProtoKey
    THEN [found |-> TRUE, kind |-> "obj", at |-> PrototypeOf(tree, proto, at)]
    ELSE Lookup(tree, proto, at, key)

\* the guard !(key in current) || typeof current[key] !== "object" is false
IsObjectAt(tree, proto, at, key) ==
    /\ Property(tree, proto, at, key).found
    /\ Property(tree, proto, at, key).kind = "obj"

Walked(outcome, tree, proto, at) ==
    [outcome |-> outcome, tree |-> tree, proto |-> proto, at |-> at]

\* the walk over parts[0 .. n-2] of applyMutation: "reached" with the object
\* the final key is set on, "stop" when a modify meets a missing node,
\* "TypeError" when the walk stands at null
RECURSIVE WalkParts(_, _, _, _, _, _)
WalkParts(tree, proto, at, parts, i, action) ==
    IF i > Len(parts) - 1 THEN Walked("reached", tree, proto, at)
    ELSE IF at = AtNull THEN Walked("TypeError", tree, proto, at)
    ELSE IF ~IsObjectAt(tree, proto, at, parts[i])
         THEN IF action = "add"
              THEN LET created == [at EXCEPT !.keys = Append(@, parts[i])]
                   IN IF at.in = "variables"
                      THEN WalkParts(SetNode(tree, created.keys, ObjNode), proto, created,
                                     parts, i + 1, action)
                      ELSE WalkParts(tree, SetNode(proto, created.keys, ObjNode), created,
                                     parts, i + 1, action)
              ELSE Walked("stop", tree, proto, at)
         ELSE WalkParts(tree, proto, Property(tree, proto, at, parts[i]).at,
                        parts, i + 1, action)

\* the value of a mutation is a number, or an object given as the tree of
\* its own keys
IsObjectValue(mutation) == "object" \in DOMAIN mutation

\* current[finalKey] = structuredClone(mutation.value): the key holds the
\* number, or an object with a copy of every node of the value below it
SetValue(tree, keys, mutation) ==
    IF IsObjectValue(mutation)
    THEN LET held == SetNode(tree, keys, ObjNode)
             below == {keys \o c : c \in DOMAIN mutation.object}
         IN [k \in DOMAIN held \cup below |->
                IF k \in below THEN mutation.object[SubSeq(k, Len(keys) + 1, Len(k))]
                ELSE held[k]]
    ELSE SetNode(tree, keys, NumNode(mutation.value))

Applied(tree, proto, threw) == [tree |-> tree, proto |-> proto, threw |-> threw]

\* the assignment to the final key. On null it is a TypeError. The key
\* __proto__ is the setter of Object.prototype: an object value becomes the
\* prototype of current (a TypeError on Object.prototype itself), any other
\* value is ignored
SetFinal(tree, proto, at, key, mutation) ==
    IF at = AtNull THEN Applied(tree, proto, TRUE)
    ELSE IF key = ProtoKey /\ ~IsObjectValue(mutation) THEN Applied(tree, proto, FALSE)
    ELSE IF key = ProtoKey /\ at = ObjectPrototype THEN Applied(tree, proto, TRUE)
    ELSE IF at.in = "variables"
         THEN Applied(SetValue(tree, Append(at.keys, key), mutation), proto, FALSE)
         ELSE Applied(tree, SetValue(proto, Append(at.keys, key), mutation), FALSE)

applyAt(tree, proto, parts, mutation) ==
    LET walked == WalkParts(tree, proto, InVariables(<< >>), parts, 1, mutation.action)
    IN IF walked.outcome = "reached"
       THEN SetFinal(walked.tree, walked.proto, walked.at, parts[Len(parts)], mutation)
       ELSE Applied(walked.tree, walked.proto, walked.outcome = "TypeError")

\* applyMutation on the variables tree with Object.prototype as it is: the
\* two trees after it, and whether it threw a TypeError
applyMutation(tree, proto, mutation) == applyAt(tree, proto, Split(mutation.path), mutation)

\* the loop that applies the mutations of a proposal: it ends at the first
\* mutation that throws
RECURSIVE ApplyAll(_, _, _)
ApplyAll(tree, proto, mutations) ==
    IF mutations = << >> THEN Applied(tree, proto, FALSE)
    ELSE LET one == applyMutation(tree, proto, Head(mutations))
         IN IF one.threw THEN one
            ELSE ApplyAll(one.tree, one.proto, Tail(mutations))

\* the own properties of a tree: what JSON.stringify and structuredClone see
OwnProperties(tree) ==
    [k \in {k \in DOMAIN tree : \A i \in 1..Len(k) : k[i] # ProtoKey} |-> tree[k]]

\* structuredClone in the constructor and in applyMutation: the Environment
\* holds copies, never the caller's objects
ConstructorCopies == TRUE

ValueCopies == TRUE

\* what the mutations of a turn do to the object an actor handed in as a
\* value: aliasedAt is the key under which the state holds that very object
\* (none, << >>, when it was copied), and a write below that key is a write
\* into the object
RECURSIVE ValueObjectAfter(_, _, _, _, _)
ValueObjectAfter(tree, proto, aliasedAt, object, mutations) ==
    IF mutations = << >> THEN [aliasedAt |-> aliasedAt, object |-> object]
    ELSE LET m == Head(mutations)
             parts == Split(m.path)
             ok == WalkParts(tree, proto, InVariables(<< >>), parts, 1,
                             m.action).outcome = "reached"
             next == applyMutation(tree, proto, m)
         IN IF next.threw THEN [aliasedAt |-> aliasedAt, object |-> object]
            ELSE IF ~ok
            THEN ValueObjectAfter(next.tree, next.proto, aliasedAt, object, Tail(mutations))
            ELSE IF IsObjectValue(m)
            THEN ValueObjectAfter(next.tree, next.proto,
                                  IF ValueCopies THEN << >> ELSE parts, object,
                                  Tail(mutations))
            ELSE IF aliasedAt # << >> /\ IsStrictPrefix(aliasedAt, parts)
            THEN ValueObjectAfter(next.tree, next.proto, aliasedAt,
                                  applyAt(object, proto,
                                          SubSeq(parts, Len(aliasedAt) + 1, Len(parts)),
                                          m).tree,
                                  Tail(mutations))
            ELSE IF aliasedAt # << >>
                    /\ (parts = aliasedAt \/ IsStrictPrefix(parts, aliasedAt))
            THEN ValueObjectAfter(next.tree, next.proto, << >>, object, Tail(mutations))
            ELSE ValueObjectAfter(next.tree, next.proto, aliasedAt, object, Tail(mutations))

(***************************************************************************)
(* Permissions                                                             *)
(***************************************************************************)
\* a permission check that consults the allow list before the denials
isPermitted_allowFirst(perms, agentId, path) ==
    IF agentId \notin DOMAIN perms THEN TRUE
    ELSE \E i \in 1..Len(perms[agentId].can_modify_fields) :
            StartsWith(path, perms[agentId].can_modify_fields[i])

isPermitted(perms, agentId, path) ==
    IF agentId \notin DOMAIN perms THEN TRUE
    ELSE LET p == perms[agentId]
         IN IF \E i \in 1..Len(p.cannot_modify_fields) :
                   StartsWith(path, p.cannot_modify_fields[i])
            THEN FALSE
            ELSE \E i \in 1..Len(p.can_modify_fields) :
                   StartsWith(path, p.can_modify_fields[i])

AllPermitted(perms, agentId, mutations) ==
    \A i \in 1..Len(mutations) : isPermitted(perms, agentId, mutations[i].path)

(***************************************************************************)
(* Turn order extension                                                    *)
(***************************************************************************)
\* parseInt(digits, 10) of the (\d+) group
RECURSIVE ParseInt(_)
ParseInt(digits) ==
    IF digits = << >> THEN 0
    ELSE 10 * ParseInt(SubSeq(digits, 1, Len(digits) - 1)) + digits[Len(digits)]

\* A turn_injection_logic string is kept as the part the regular expression
\* /speak_every_(\d+)_turns/ looks at: whether the literal text around the
\* digits is present, and the digits found between them.
parseTurnInjection(logic) ==
    IF logic.literal /\ logic.digits # << >> THEN ParseInt(logic.digits) ELSE 1

\* the loop that builds newOrder: the id goes after every interval-th slot;
\* (i + 1) % 0 is NaN in the source and never equals 0
RECURSIVE InjectFrom(_, _, _, _)
InjectFrom(order, i, agentId, interval) ==
    IF i > Len(order) THEN << >>
    ELSE (IF interval # 0 /\ i % interval = 0 THEN <<order[i], agentId>> ELSE <<order[i]>>)
         \o InjectFrom(order, i + 1, agentId, interval)

ExtendTurnOrder(order, agentId, interval) == InjectFrom(order, 1, agentId, interval)

\* turnOrder.filter(id => createdAgentIds.has(id)).length
ActiveCreatedCount(order, created) == Cardinality({i \in 1..Len(order) : order[i] \in created})

\* NewAgentProvisioning.parse : the schema checks the types of the fields only
NewAgentProvisioningParse(spec) ==
    /\ spec.permissions.can_abort_episode \in BOOLEAN
    /\ spec.permissions.can_propose_resolution \in BOOLEAN
    /\ spec.permissions.max_state_mutations_per_turn \in Int

(***************************************************************************)
(* Inputs: proposals of the actors, specs of the Provisioner               *)
(***************************************************************************)
Mut(action, path, value) == [action |-> action, path |-> path, value |-> value]

\* a mutation whose value is an object
MutObject(action, path, object) ==
    [action |-> action, path |-> path, value |-> 0, object |-> object]

\* the object { y: 7 }
ObjectValue == (<< <<"y">> >> :> NumNode(7))
MO_add_s == MutObject("add", P_s, ObjectValue)
M_mod_sy == Mut("modify", P_sy, 1)
M_add_cy == Mut("add", P_cy, 65)
M_mod_cy == Mut("modify", P_cy, 99)
M_add_sy == Mut("add", P_sy, 1)
M_mod_s == Mut("modify", P_s, 2)
\* paths that lead through __proto__: into Object.prototype, and to null
M_add_proto_sy == Mut("add", ProtoKey \o <<Dot>> \o P_sy, 1)
M_mod_proto_z == Mut("modify", ProtoKey \o <<Dot, "z">>, 1)
M_add_null_x == Mut("add", ProtoKey \o <<Dot>> \o ProtoKey \o <<Dot, "x">>, 1)

Prop(muts, resolution, abort) ==
    [state_mutations |-> muts, propose_resolution |-> resolution, abort_episode |-> abort]

Proposals ==
    { Prop(<< >>, FALSE, FALSE), Prop(<< >>, TRUE, FALSE),
      Prop(<< >>, FALSE, TRUE), Prop(<< >>, TRUE, TRUE),
      Prop(<<M_add_cy>>, FALSE, FALSE),
      Prop(<<M_add_sy, M_mod_s>>, FALSE, FALSE) }

TokenChoices == {1, MaxCallTokens}
SkipTokenChoices == {0, MaxCallTokens}
TensionLevels == {8}

Perms(can, cannot, abort, resolution, maxMut) ==
    [can_modify_fields |-> can, cannot_modify_fields |-> cannot,
     can_abort_episode |-> abort, can_propose_resolution |-> resolution,
     max_state_mutations_per_turn |-> maxMut]

\* the scope of the permission tests: subsidies allowed, concessions denied
Perm_S5 == Perms(<<P_s>>, <<P_c>>, FALSE, FALSE, 1)
\* an allowed prefix with a denied path below it
Perm_overlap == Perms(<<P_c>>, <<P_cy>>, FALSE, FALSE, 1)
Perm_abort == Perms(<<P_s>>, << >>, TRUE, FALSE, 1)
Perm_resolve == Perms(<<P_s>>, << >>, FALSE, TRUE, 1)
Perm_many == Perms(<<P_s>>, << >>, FALSE, FALSE, 4)

Logic(literal, digits) == [literal |-> literal, digits |-> digits]
AgentSpec(id, archetype, logic, perms) ==
    [agent_id |-> id, archetype |-> archetype, turn_injection_logic |-> logic,
     permissions |-> perms]

\* specs mounted before an episode
EpisodeMountSpecs ==
    { AgentSpec("broker_01", "broker", Logic(TRUE, <<1>>), Perm_S5),
      AgentSpec("broker_01", "broker", Logic(TRUE, <<2>>), Perm_overlap) }

AlternatingOrder(n) == [i \in 1..n |-> IF i % 2 = 1 THEN "agent_a" ELSE "agent_b"]
InitialOrders == {AlternatingOrder(n) : n \in 1..MaxInitialOrder}

InitialVariables == (TensionKey :> NumNode(5))

(***************************************************************************)
(* State                                                                   *)
(***************************************************************************)
VARIABLES
    \* EnvironmentManager
    turn_number, current_speaker_id, is_terminal, variables,
    turnOrder, actionLogs, terminationReason, penaltyCount,
    lastProposalWasFinal, agentPermissions, createdAgentIds,
    infoDisruptor, tensionAgent,
    \* runEpisode: position, cumulative token usage, returned transcript
    pc, tokenUsage, transcript,
    \* events emitted by the last operation (for a step: by the call so far,
    \* and by the maintenance of runEpisode after it), outcome of the last
    \* mountAgent
    emitted, mountResult,
    \* every entry pushed on actionLogs in the episode, and what the Critic got
    appendedLog, criticTranscript,
    \* the last step: answers of the actor, calls of proposeAction, and the
    \* error it threw
    lastResponses, asked, raised,
    \* the proposal the retry loop of the last step ended with
    proposed,
    \* step: where the call stands ("none" when no call is in flight), its
    \* local turnTokenUsage (the value a call that returned hands back), and
    \* the keys of the agents record it was given
    stepPc, turnTokenUsage, agents,
    \* config.max_active_created_agents
    max_active_created_agents,
    \* runFullSimulation: generation counter, position in the loop body,
    \* Object.keys(activeAgents), failedArchetypes, the spec under creation
    generation, phase, activeAgents, failedArchetypes, newAgentSpec,
    \* the mutation phase: evolve calls in flight, actors whose call returned
    \* a variant
    pendingEvolve, acceptedActors,
    \* Mutator.plateauCounter
    plateauCounter,
    \* the generations in a row, up to the last mutation phase, without an
    \* accepted mutation; the permissions of every spec the Provisioner designed
    noAcceptStreak, provisioned,
    \* Mutator.evolve: position, baselineScores, number of variants,
    \* survivors of the fast prune, shadow scores per survivor, returned variant
    mutPc, baselineScores, variantCount, survivors, shadowScores, evolveReturned,
    \* config.acceptance_p_value_threshold as evolve reads it
    acceptance_p_value_threshold,
    \* the limiters in use: tasks waiting per limiter, episodes running per
    \* fan-out; the sizes of the trial batches each evolve call has yet to submit
    limQueue, limRunning, evolveBatches,
    \* config.creation_patience, config.shadow_trial_count
    creation_patience, shadow_trial_count,
    \* config.require_human_approval_for_creation, and whether the option
    \* onCreationApproval is supplied
    require_human_approval_for_creation, onCreationApproval,
    \* what the approval gate did for the spec under creation
    approvalAnswer,
    \* the generation in which the generation loop last called
    \* provisioner.designAgent (DesignAgent), -1 before the first call
    lastCreationAttempt,
    \* the option explorer (wired or not), config.scout_sweep_interval_generations
    explorer, scout_sweep_interval_generations,
    \* the options capitalizer, tensionDisruptor and infoDisruptor of
    \* runFullSimulation: whether each is supplied
    options,
    \* initialState.scout_hypotheses: the generation whose scan wrote it, -1
    \* while the field is absent
    scout_hypotheses,
    \* the shadow scores and the baseline scores the creation gate compared
    gateScores,
    \* the values of activeAgents (the ActorAgent objects by id), and the
    \* newAgent each evolve call of the generation returned
    agentObjects, evolved,
    \* the initial state object the caller holds, the object an actor hands
    \* in as a mutation's value and the key under which the state holds that
    \* very object, the Environments built from the initial state, and the
    \* final states runEpisode returned to that caller
    initialState, valueObject, valueAliasedAt, environmentsBuilt, returnedStates,
    \* the properties the mutations added to Object.prototype, which every
    \* object of the process inherits
    objectPrototype,
    \* the Capitalizer's interjection: the log entries it is given, the
    \* strategic_hint its model returned, state.injections.capitalizer_hint,
    \* the position of the interjection, and state.injections.capitalizer_hint
    \* as the last call of step found it
    recentLogs, strategic_hint, capitalizer_hint, capPc, hintAtCall,
    \* the retryContext field of the shared ActorAgent objects, the episodes
    \* that run at the same time with these objects (position of runEpisode,
    \* turn_number, retries of the step, penaltyCount), and the last call of
    \* proposeAction with the note it put into the prompt
    retryContext, running, lastCall

envVars == <<turn_number, current_speaker_id, is_terminal, variables,
             turnOrder, actionLogs, terminationReason, penaltyCount,
             lastProposalWasFinal, agentPermissions, createdAgentIds,
             infoDisruptor, tensionAgent, pc, tokenUsage, transcript,
             emitted, mountResult, appendedLog, criticTranscript,
             lastResponses, asked, raised, proposed, stepPc, turnTokenUsage, agents,
             max_active_created_agents>>

stepVars == <<lastResponses, asked, raised, proposed, stepPc, turnTokenUsage, agents>>

orchVars == <<generation, phase, activeAgents, failedArchetypes, newAgentSpec,
              pendingEvolve, acceptedActors, plateauCounter, noAcceptStreak, provisioned>>

mutVars == <<mutPc, baselineScores, variantCount, survivors, shadowScores, evolveReturned,
             acceptance_p_value_threshold>>

\* the limiter of a generation and the trial batches the evolve calls still
\* have to run
limVars == <<limQueue, limRunning, evolveBatches>>

\* the configuration record of runFullSimulation
configVars == <<creation_patience, require_human_approval_for_creation,
                onCreationApproval, explorer, scout_sweep_interval_generations,
                shadow_trial_count, options>>

\* the creation attempt of the current generation
creationVars == <<approvalAnswer, gateScores, lastCreationAttempt>>

\* what the orchestrator writes on the initial state
sweepVars == <<scout_hypotheses>>

\* the live roster's objects and the results of the mutation phase
rosterVars == <<agentObjects, evolved>>

\* the objects of the caller of the Environment
cloneVars == <<initialState, valueObject, valueAliasedAt, environmentsBuilt, returnedStates,
               objectPrototype>>

\* the Capitalizer interjection of a step
capVars == <<recentLogs, strategic_hint, capitalizer_hint, capPc, hintAtCall>>

\* the retry context of the shared actors in concurrent episodes
noteVars == <<retryContext, running, lastCall>>

auxVars == <<configVars, creationVars, sweepVars, rosterVars, cloneVars, capVars, noteVars>>

metaVars == <<orchVars, mutVars, limVars, auxVars>>

vars == <<envVars, metaVars>>

Event(name, speakerId) == [name |-> name, speakerId |-> speakerId]
\* the ids an agent can have
AllIds == PrimaryIds \cup CreatedIdPool
\* an id the Provisioner's model can return that is an array index
IntegerLikeIds == {"7"}
\* private penaltyCount: Record<string, number> = {}, read with ?? 0
NoPenalties == [id \in AllIds \cup IntegerLikeIds |-> 0]

\* let proposal: ActionProposalType | null = null
NoProposal ==
    [state_mutations |-> << >>, propose_resolution |-> FALSE, abort_episode |-> FALSE,
     null |-> TRUE]

\* new EnvironmentManager(structuredClone(initialState), config) with the
\* meta-agents wired as given
EnvConstructed(order, info, tension) ==
    /\ turn_number = 0
    /\ current_speaker_id = "agent_a"
    /\ is_terminal = FALSE
    /\ variables = InitialVariables
    /\ turnOrder = order
    /\ actionLogs = << >>
    /\ terminationReason = "timeout"
    /\ penaltyCount = NoPenalties
    /\ lastProposalWasFinal = FALSE
    /\ agentPermissions = << >>
    /\ createdAgentIds = {}
    /\ infoDisruptor = info
    /\ tensionAgent = tension
    /\ pc = "idle"
    /\ tokenUsage = 0
    /\ transcript = << >>
    /\ emitted = << >>
    /\ mountResult = "none"
    /\ appendedLog = << >>
    /\ criticTranscript = << >>
    /\ lastResponses = << >>
    /\ proposed = NoProposal
    /\ asked = 0
    /\ raised = "none"
    /\ stepPc = "none"
    /\ turnTokenUsage = 0
    /\ agents = {}

\* no spec is under creation
NoSpec ==
    AgentSpec(NoSpeaker, "none", Logic(FALSE, << >>), Perms(<< >>, << >>, FALSE, FALSE, 0))

\* runFullSimulation has not been called
OrchIdle ==
    /\ generation = 0
    /\ phase = "none"
    /\ activeAgents = << >>
    /\ failedArchetypes = << >>
    /\ newAgentSpec = NoSpec
    /\ pendingEvolve = {}
    /\ acceptedActors = {}
    /\ plateauCounter = 0
    /\ noAcceptStreak = 0
    /\ provisioned = << >>

\* a key the configuration object does not hold reads as undefined
Undefined == << >>

\* Mutator.evolve has not been called
MutIdle ==
    /\ mutPc = "none"
    /\ baselineScores = << >>
    /\ variantCount = 0
    /\ survivors = << >>
    /\ shadowScores = << >>
    /\ evolveReturned = 0
    /\ acceptance_p_value_threshold = Undefined

\* the fan-outs of a generation that put episodes on a limiter: the epoch,
\* the evolve call of every primary actor, the shadow test of a creation
Owners == {"epoch", "creation"} \cup PrimaryIds

\* a limiter of its own for every fan-out
LimiterOf_perFanOut(owner) == owner

\* every fan-out uses the one limiter of the generation
LimiterOf(owner) == "limit"

Limiters == {"limit"} \cup Owners

\* no episode was handed to a limiter
LimIdle ==
    /\ limQueue = [l \in Limiters |-> << >>]
    /\ limRunning = [o \in Owners |-> 0]
    /\ evolveBatches = [a \in PrimaryIds |-> << >>]

\* activeCount of a limiter: the running episodes that went through it
ActiveCount(l) ==
    Cardinality({p \in Owners \X (1..(MaxConcurrency + 1)) :
                    LimiterOf(p[1]) = l /\ p[2] <= limRunning[p[1]]})

\* the tasks of a fan-out that wait in its limiter
Queued(owner) ==
    Cardinality({i \in 1..Len(limQueue[LimiterOf(owner)]) :
                    limQueue[LimiterOf(owner)][i] = owner})

\* the promises of a fan-out that are not settled
Outstanding(owner) == Queued(owner) + limRunning[owner]

\* Array.from({ length: n }).map(() => limit(...)): n tasks enter the limiter
Submitted(owner, n) ==
    [limQueue EXCEPT ![LimiterOf(owner)] = @ \o [i \in 1..n |-> owner]]

\* the meta-agents runFullSimulation is given
Options(cap, tension, info) ==
    [capitalizer |-> cap, tensionDisruptor |-> tension, infoDisruptor |-> info]

NoOptions == Options(FALSE, FALSE, FALSE)

\* the configuration outside runFullSimulation
ConfigDefault ==
    /\ options = NoOptions
    /\ creation_patience = CreationPatience
    /\ require_human_approval_for_creation = TRUE
    /\ onCreationApproval = TRUE
    /\ explorer = FALSE
    /\ scout_sweep_interval_generations = 1
    /\ shadow_trial_count = ShadowTrialCount

NoScores == [shadow |-> << >>, base |-> << >>]

\* private retryContext: string | null = null
NoNote == [episode |-> 0, turn |-> 0]

\* the message of a validation error, named by the episode and the turn
\* whose attempt failed
Note(episode, turn) == [episode |-> episode, turn |-> turn]

\* the episodes the limiter runs at the same time
Episodes == 1..MaxConcurrency

NoCall == [episode |-> 0, speakerId |-> NoSpeaker, turn |-> 0, attempt |-> 0, note |-> NoNote]

\* an episode of the epoch at its reset: the position of runEpisode, and
\* turn_number, the retries of the step, penaltyCount, the tokenUsage of
\* runEpisode, the turnTokenUsage of the step, terminationReason and
\* lastProposalWasFinal
EpisodeAt(position) ==
    [pc |-> position, turn_number |-> 0, retries |-> 0,
     penaltyCount |-> [id \in PrimaryIds |-> 0],
     tokenUsage |-> 0, turnTokenUsage |-> 0, terminationReason |-> "timeout",
     lastProposalWasFinal |-> FALSE]

\* no episodes share actors
NoteIdle ==
    /\ retryContext = [id \in PrimaryIds |-> NoNote]
    /\ running = [e \in Episodes |-> EpisodeAt("none")]
    /\ lastCall = NoCall

\* no Capitalizer is wired
CapIdle ==
    /\ recentLogs = << >>
    /\ strategic_hint = << >>
    /\ capitalizer_hint = << >>
    /\ capPc = "idle"
    /\ hintAtCall = << >>

\* one Environment was built from the initial state
CloneIdle ==
    /\ initialState = InitialVariables
    /\ valueObject = ObjectValue
    /\ valueAliasedAt = << >>
    /\ environmentsBuilt = 1
    /\ returnedStates = << >>
    /\ objectPrototype = NoPrototypeKeys

\* new ActorAgent({ archetypeId, immutableCore, mutableStrategy, hyperparameters })
ActorAgent(archetypeId, immutableCore, mutableStrategy, hyperparameters) ==
    [id |-> archetypeId, immutableCore |-> immutableCore,
     mutableStrategy |-> mutableStrategy, hyperparameters |-> hyperparameters]

\* the value null of res.newAgent
NoAgent == ActorAgent("none", "none", "none", "none")

\* the agents runFullSimulation is called with
InitialCores == [id \in PrimaryIds |-> IF id = "agent_a" THEN "core_a" ELSE "core_b"]

InitialAgents == [id \in PrimaryIds |-> ActorAgent(id, InitialCores[id], "", "default")]

NoEvolved == [id \in PrimaryIds |-> NoAgent]

\* ActorAgent.withMutatedStrategy: a new object with the id and immutable
\* core of this one
withMutatedStrategy(agent, newStrategy, newHyperparameters) ==
    ActorAgent(agent.id, agent.immutableCore, newStrategy, newHyperparameters)

\* the variants the Mutator's model proposes: strategy_text and hyperparameters
MutatorVariants == { [strategy_text |-> "v1", hyperparameters |-> "h1"] }

\* for (const res of mutationResults) if (res && res.newAgent)
\*     activeAgents[res.primaryActorId] = res.newAgent
CommitMutations(objects, results) ==
    [id \in DOMAIN objects |->
        IF id \in DOMAIN results /\ results[id] # NoAgent THEN results[id] ELSE objects[id]]

\* activeAgents[newAgentSpec.agent_id] = newAgent, the actor mountAgent built
\* from the spec (its system_prompt is the immutable core, kept as one text);
\* an actor that stood under that id is replaced
WithMounted(objects, spec) ==
    [id \in DOMAIN objects \cup {spec.agent_id} |->
        IF id = spec.agent_id THEN ActorAgent(spec.agent_id, "system_prompt", "", "default")
        ELSE objects[id]]

AuxIdle ==
    /\ ConfigDefault
    /\ approvalAnswer = "none"
    /\ lastCreationAttempt = -1
    /\ gateScores = NoScores
    /\ scout_hypotheses = -1
    /\ agentObjects = InitialAgents
    /\ evolved = NoEvolved
    /\ CloneIdle
    /\ CapIdle
    /\ NoteIdle

Init ==
    /\ \E order \in InitialOrders, info \in BOOLEAN, tension \in BOOLEAN :
          EnvConstructed(order, info, tension)
    /\ max_active_created_agents = MaxActiveCreatedAgents
    /\ OrchIdle
    /\ MutIdle
    /\ LimIdle
    /\ AuxIdle

(***************************************************************************)
(* EnvironmentManager.mountAgent                                           *)
(***************************************************************************)
MountAgent(spec) ==
    /\ pc = "idle"
    /\ stepPc = "none"
    /\ NewAgentProvisioningParse(spec)
    /\ IF ActiveCreatedCount(turnOrder, createdAgentIds) >= max_active_created_agents
       THEN /\ mountResult' = "MaxAgentsExceeded"
            /\ emitted' = << >>
            /\ UNCHANGED <<agentPermissions, createdAgentIds, turnOrder>>
       ELSE /\ agentPermissions' =
                 [id \in DOMAIN agentPermissions \cup {spec.agent_id} |->
                     IF id = spec.agent_id THEN spec.permissions ELSE agentPermissions[id]]
            /\ createdAgentIds' = createdAgentIds \cup {spec.agent_id}
            /\ turnOrder' = ExtendTurnOrder(turnOrder, spec.agent_id,
                                            parseTurnInjection(spec.turn_injection_logic))
            /\ emitted' = <<Event("agent:created", spec.agent_id)>>
            /\ mountResult' = "mounted"
    /\ UNCHANGED <<turn_number, current_speaker_id, is_terminal, variables, actionLogs,
                   terminationReason, penaltyCount, lastProposalWasFinal,
                   infoDisruptor, tensionAgent, pc, tokenUsage, transcript,
                   appendedLog, criticTranscript, stepVars,
                   max_active_created_agents>>
    /\ UNCHANGED metaVars

(***************************************************************************)
(* EnvironmentManager.runEpisode and step                                  *)
(***************************************************************************)
\* an episode that starts with the penalty counts of the one before
PenaltiesAtStart_kept(count) == count

\* this.penaltyCount = {}
PenaltiesAtStart(count) == NoPenalties

\* what a step leaves alone: the wiring of the Environment and what the
\* caller of runEpisode holds
wiringVars == <<turnOrder, agentPermissions, createdAgentIds, infoDisruptor, tensionAgent,
                mountResult, transcript, criticTranscript, max_active_created_agents>>

\* the reset at the head of runEpisode(agents), up to the emit of episode:start
EpisodeReset(record) ==
    /\ stepPc = "none"
    /\ is_terminal' = FALSE
    /\ turn_number' = 0
    /\ actionLogs' = << >>
    /\ terminationReason' = "timeout"
    /\ penaltyCount' = PenaltiesAtStart(penaltyCount)
    /\ lastProposalWasFinal' = FALSE
    /\ emitted' = <<Event("episode:start", NoSpeaker)>>
    /\ tokenUsage' = 0
    /\ appendedLog' = << >>
    /\ pc' = "loop"
    /\ lastResponses' = << >>
    /\ proposed' = NoProposal
    /\ asked' = 0
    /\ raised' = "none"
    /\ turnTokenUsage' = 0
    /\ agents' = record
    /\ UNCHANGED <<current_speaker_id, variables, stepPc, wiringVars>>
    /\ UNCHANGED metaVars

\* runEpisode on an Environment that ran no episode yet
RunEpisodeStart(record) ==
    /\ pc = "idle"
    /\ EpisodeReset(record)

\* runEpisode called again on an Environment whose episode has returned
RunEpisodeAgain(record) ==
    /\ pc = "returned"
    /\ EpisodeReset(record)

\* a loop that allows one turn too many
LoopCondition_offByOne == ~is_terminal /\ turn_number <= MaxTurnsPerEpisode

\* a loop that does not look at is_terminal
LoopCondition_ignoresTerminal == turn_number < MaxTurnsPerEpisode

\* the condition of the while loop
LoopCondition == ~is_terminal /\ turn_number < MaxTurnsPerEpisode

\* a loop body without the circuit breaker
StepCalled_noBreaker == pc = "loop" /\ LoopCondition

\* the loop body gets past the circuit breaker and calls step
StepCalled == pc = "loop" /\ LoopCondition /\ tokenUsage <= MaxEpisodeTokens

\* a rotation that is one slot ahead
Speaker_oneAhead == turnOrder[((turn_number + 1) % Len(turnOrder)) + 1]

\* turnOrder[turn_number % turnOrder.length]
Speaker == turnOrder[(turn_number % Len(turnOrder)) + 1]

CostCircuitBreaker ==
    /\ pc = "loop"
    /\ LoopCondition
    /\ tokenUsage > MaxEpisodeTokens
    /\ is_terminal' = TRUE
    /\ terminationReason' = "token_limit"
    /\ emitted' = << >>
    /\ UNCHANGED <<turn_number, current_speaker_id, variables, turnOrder, actionLogs,
                   penaltyCount, lastProposalWasFinal, agentPermissions, createdAgentIds,
                   infoDisruptor, tensionAgent, pc, tokenUsage, transcript, mountResult,
                   appendedLog, criticTranscript, stepVars,
                   max_active_created_agents>>
    /\ UNCHANGED metaVars

\* a maintenance that lets the log grow one entry past the kept count
PruneNeeded_late(turn, log) ==
    /\ turn > 0
    /\ turn % SummarizationFrequency = 0
    /\ Len(log) > SummarizationFrequency * 2 + 1

\* context maintenance at the tail of the loop body
PruneNeeded(turn, log) ==
    /\ turn > 0
    /\ turn % SummarizationFrequency = 0
    /\ Len(log) > SummarizationFrequency * 2

\* Array.prototype.slice(-keepCount)
LastEntries(log, keepCount) ==
    IF Len(log) <= keepCount THEN log
    ELSE SubSeq(log, Len(log) - keepCount + 1, Len(log))

Pruned(turn, log) ==
    IF PruneNeeded(turn, log) THEN LastEntries(log, SummarizationFrequency * 2) ELSE log

PruneEvents(turn, log) ==
    IF PruneNeeded(turn, log) THEN <<Event("turn:penalty", SummarizerId)>> ELSE << >>

ActorEntry(turn, speakerId, proposal) ==
    [turn |-> turn, speakerId |-> speakerId,
     state_mutations |-> proposal.state_mutations,
     propose_resolution |-> proposal.propose_resolution,
     abort_episode |-> proposal.abort_episode]

DisruptorEntry(turn) ==
    [turn |-> turn, speakerId |-> DisruptorInfoId, state_mutations |-> << >>,
     propose_resolution |-> FALSE, abort_episode |-> FALSE]

\* a termination check that ends the episode on an abort only
TerminalAfter_abortOnly(proposal, lastFinal) == proposal.abort_episode

\* step 7 of step(): termination conditions
TerminalAfter(proposal, lastFinal) ==
    proposal.abort_episode \/ (proposal.propose_resolution /\ lastFinal)

\* a termination check that looks at the agreement first
ReasonAfter_agreementFirst(proposal, lastFinal, reason) ==
    IF proposal.propose_resolution /\ lastFinal THEN "agreement"
    ELSE IF proposal.abort_episode THEN "abort_episode"
    ELSE reason

ReasonAfter(proposal, lastFinal, reason) ==
    IF proposal.abort_episode THEN "abort_episode"
    ELSE IF proposal.propose_resolution /\ lastFinal THEN "agreement"
    ELSE reason

\* this.state.turn_number++ at the end of a valid turn
TurnAfterValid(turn) == turn + 1

\* a penalized skip that forgets to advance the turn
TurnAfterPenalty_stuck(turn) == turn

\* this.state.turn_number++ of a penalized skip
TurnAfterPenalty(turn) == turn + 1

\* a retry loop that allows one attempt too many
RetryBudgetLeft_oneMore(retries) == retries <= MaxValidationRetries

\* while (retries < this.config.max_validation_retries)
RetryBudgetLeft(retries) == retries < MaxValidationRetries

\* a threshold that is reached one penalty late
ThresholdReached_late(count) == count > ForcedConcessionThreshold

\* this.penaltyCount[speakerId] >= this.config.forced_concession_threshold
ThresholdReached(count) == count >= ForcedConcessionThreshold

\* this.infoDisruptor && turn_number % info_disruptor_frequency === 0
InfoDue(turn) == infoDisruptor /\ turn % InfoDisruptorFrequency = 0

\* step(agents) from its call to its first await: the speaker is looked up in
\* the record and current_speaker_id is written; with a Capitalizer wired the
\* step awaits analyzeOverlap, without one the retry loop makes its first
\* call of proposeAction; a speaker without an agent throws
StepEnter ==
    /\ lastResponses' = << >>
    /\ proposed' = NoProposal
    /\ turnTokenUsage' = 0
    /\ emitted' = << >>
    /\ IF Speaker \in agents'
       THEN /\ current_speaker_id' = Speaker
            /\ raised' = "none"
            /\ IF capPc # "idle"
               THEN asked' = 0 /\ stepPc' = "capitalizer"
               ELSE asked' = 1 /\ stepPc' = "proposeAction"
       ELSE /\ asked' = 0
            /\ raised' = "Error"
            /\ stepPc' = "threw"
            /\ UNCHANGED current_speaker_id
    /\ hintAtCall' = capitalizer_hint
    /\ UNCHANGED <<turn_number, is_terminal, variables, actionLogs, terminationReason,
                   penaltyCount, lastProposalWasFinal, tokenUsage, appendedLog, wiringVars>>
    /\ UNCHANGED <<recentLogs, strategic_hint, capitalizer_hint, capPc>>
    /\ UNCHANGED <<orchVars, mutVars, limVars, configVars, creationVars, sweepVars,
                   rosterVars, cloneVars, noteVars>>

\* the loop body of runEpisode gets past the circuit breaker and awaits step
StepBegin ==
    /\ StepCalled
    /\ stepPc = "none"
    /\ pc' = "step"
    /\ UNCHANGED agents
    /\ StepEnter

\* step called on the Environment by another caller than runEpisode, before
\* any episode and after the call before it has returned or thrown; the
\* guards on turn_number and on the penalties bound the calls
StepDirect(record) ==
    /\ pc = "idle"
    /\ stepPc \in {"none", "returned", "threw"}
    /\ turn_number < MaxTurnsPerEpisode
    /\ \A id \in AllIds : penaltyCount[id] <= ForcedConcessionThreshold
    /\ agents' = record
    /\ UNCHANGED pc
    /\ StepEnter

\* the awaited call fails validation (the model call raises an error with
\* issues and no tokens, or ActionProposal.parse raises after the tokens
\* were counted) and the retry budget is not used up: the loop calls again
ProposeRetried(tokens) ==
    /\ stepPc = "proposeAction"
    /\ RetryBudgetLeft(asked)
    /\ lastResponses' = Append(lastResponses, "invalid")
    /\ turnTokenUsage' = turnTokenUsage + tokens
    /\ asked' = asked + 1
    /\ emitted' = emitted
    /\ UNCHANGED <<turn_number, current_speaker_id, is_terminal, variables, actionLogs,
                   terminationReason, penaltyCount, lastProposalWasFinal, pc, tokenUsage,
                   appendedLog, raised, proposed, stepPc, agents, wiringVars>>
    /\ UNCHANGED metaVars

\* a penalty branch that also forgets the resolution proposed on the turn before
FlagAfterPenalty_cleared(flag) == FALSE

\* the penalty branch does not write lastProposalWasFinal
FlagAfterPenalty(flag) == flag

\* the awaited call fails validation and the retry budget is used up, the
\* speaker stays below the threshold: the penalty is counted and
\* turn:penalty is emitted
ProposeExhausted(tokens) ==
    /\ stepPc = "proposeAction"
    /\ ~RetryBudgetLeft(asked)
    /\ ~ThresholdReached(penaltyCount[Speaker] + 1)
    /\ lastResponses' = Append(lastResponses, "invalid")
    /\ turnTokenUsage' = turnTokenUsage + tokens
    /\ penaltyCount' = [penaltyCount EXCEPT ![Speaker] = @ + 1]
    /\ lastProposalWasFinal' = FlagAfterPenalty(lastProposalWasFinal)
    /\ emitted' = Append(emitted, Event("turn:penalty", Speaker))
    /\ stepPc' = "penalty"
    /\ UNCHANGED <<turn_number, current_speaker_id, is_terminal, variables, actionLogs,
                   terminationReason, pc, tokenUsage, appendedLog, raised, proposed, asked,
                   agents, wiringVars>>
    /\ UNCHANGED metaVars

\* the penalized skip ends: turn_number++ and step returns
PenaltySkipReturns ==
    /\ stepPc = "penalty"
    /\ turn_number' = TurnAfterPenalty(turn_number)
    /\ emitted' = emitted
    /\ stepPc' = "returned"
    /\ UNCHANGED <<current_speaker_id, is_terminal, variables, actionLogs,
                   terminationReason, penaltyCount, lastProposalWasFinal, pc, tokenUsage,
                   appendedLog, lastResponses, asked, raised, proposed, turnTokenUsage,
                   agents, wiringVars>>
    /\ UNCHANGED metaVars

\* the awaited call fails validation, the retry budget is used up and the
\* threshold is reached: step marks the state terminal and throws
\* EpisodeCorruptedError
ProposeCorrupted ==
    /\ stepPc = "proposeAction"
    /\ ~RetryBudgetLeft(asked)
    /\ ThresholdReached(penaltyCount[Speaker] + 1)
    /\ lastResponses' = Append(lastResponses, "invalid")
    /\ penaltyCount' = [penaltyCount EXCEPT ![Speaker] = @ + 1]
    /\ is_terminal' = TRUE
    /\ raised' = "EpisodeCorruptedError"
    /\ turnTokenUsage' = 0
    /\ emitted' = emitted
    /\ stepPc' = "threw"
    /\ UNCHANGED <<turn_number, current_speaker_id, variables, actionLogs,
                   terminationReason, lastProposalWasFinal, pc, tokenUsage, appendedLog,
                   proposed, asked, agents, wiringVars>>
    /\ UNCHANGED metaVars

\* the awaited call fails with an error that is no validation error: step
\* throws it on
ProposeFailed ==
    /\ stepPc = "proposeAction"
    /\ lastResponses' = Append(lastResponses, "error")
    /\ raised' = "Error"
    /\ turnTokenUsage' = 0
    /\ emitted' = emitted
    /\ stepPc' = "threw"
    /\ UNCHANGED <<turn_number, current_speaker_id, is_terminal, variables, actionLogs,
                   terminationReason, penaltyCount, lastProposalWasFinal, pc, tokenUsage,
                   appendedLog, proposed, asked, agents, wiringVars>>
    /\ UNCHANGED metaVars

\* a step that checks and applies in one loop: the mutations before the first
\* forbidden one are applied when the violation is raised
RECURSIVE AppliedBeforeViolation_interleaved(_, _, _, _, _)
AppliedBeforeViolation_interleaved(tree, proto, perms, agentId, mutations) ==
    IF mutations = << >> \/ ~isPermitted(perms, agentId, Head(mutations).path)
    THEN tree
    ELSE AppliedBeforeViolation_interleaved(
             applyMutation(tree, proto, Head(mutations)).tree,
             proto, perms, agentId, Tail(mutations))

\* the loop of the permission check ends (or throws) before the loop that
\* applies the mutations starts: nothing is applied when it throws
AppliedBeforeViolation(tree, proto, perms, agentId, mutations) == tree

\* the awaited call returns a proposal that parses, with a mutation the
\* speaker may not make: step throws PermissionViolationError
ProposeRefused(proposal) ==
    /\ stepPc = "proposeAction"
    /\ ~AllPermitted(agentPermissions, Speaker, proposal.state_mutations)
    /\ lastResponses' = Append(lastResponses, "valid")
    /\ proposed' = proposal
    /\ raised' = "PermissionViolationError"
    /\ turnTokenUsage' = 0
    /\ emitted' = emitted
    /\ stepPc' = "threw"
    /\ variables' = AppliedBeforeViolation(variables, objectPrototype, agentPermissions,
                                           Speaker, proposal.state_mutations)
    /\ UNCHANGED <<turn_number, current_speaker_id, is_terminal, actionLogs,
                   terminationReason, penaltyCount, lastProposalWasFinal, pc, tokenUsage,
                   appendedLog, asked, agents, wiringVars>>
    /\ UNCHANGED metaVars

\* the awaited call returns a proposal that parses and passes the permission
\* check, and a mutation of it throws a TypeError (the walk stands at null):
\* the mutations before it stay applied, and step throws
ProposeApplyThrew(proposal) ==
    /\ stepPc = "proposeAction"
    /\ AllPermitted(agentPermissions, Speaker, proposal.state_mutations)
    /\ ApplyAll(variables, objectPrototype, proposal.state_mutations).threw
    /\ lastResponses' = Append(lastResponses, "valid")
    /\ proposed' = proposal
    /\ raised' = "TypeError"
    /\ turnTokenUsage' = 0
    /\ emitted' = emitted
    /\ stepPc' = "threw"
    /\ variables' = ApplyAll(variables, objectPrototype, proposal.state_mutations).tree
    /\ objectPrototype' = ApplyAll(variables, objectPrototype, proposal.state_mutations).proto
    /\ UNCHANGED <<turn_number, current_speaker_id, is_terminal, actionLogs,
                   terminationReason, penaltyCount, lastProposalWasFinal, pc, tokenUsage,
                   appendedLog, asked, agents, wiringVars>>
    /\ UNCHANGED <<orchVars, mutVars, limVars, configVars, creationVars, sweepVars,
                   rosterVars, initialState, valueObject, valueAliasedAt,
                   environmentsBuilt, returnedStates, capVars, noteVars>>

\* the awaited call returns a proposal that parses and passes the permission
\* check: the mutations are applied, the termination flags are set, the
\* actor's entry is pushed and turn:complete is emitted; step then stands
\* at the await of a disruptor, or before turn_number++
ProposeValid(proposal, tokens) ==
    /\ stepPc = "proposeAction"
    /\ AllPermitted(agentPermissions, Speaker, proposal.state_mutations)
    /\ ~ApplyAll(variables, objectPrototype, proposal.state_mutations).threw
    /\ lastResponses' = Append(lastResponses, "valid")
    /\ proposed' = proposal
    /\ turnTokenUsage' = turnTokenUsage + tokens
    /\ variables' = ApplyAll(variables, objectPrototype, proposal.state_mutations).tree
    /\ objectPrototype' = ApplyAll(variables, objectPrototype, proposal.state_mutations).proto
    /\ is_terminal' = (is_terminal \/ TerminalAfter(proposal, lastProposalWasFinal))
    /\ terminationReason' = ReasonAfter(proposal, lastProposalWasFinal, terminationReason)
    /\ lastProposalWasFinal' = proposal.propose_resolution
    /\ actionLogs' = Append(actionLogs, ActorEntry(turn_number, Speaker, proposal))
    /\ appendedLog' = Append(appendedLog, ActorEntry(turn_number, Speaker, proposal))
    /\ emitted' = Append(emitted, Event("turn:complete", Speaker))
    /\ stepPc' = IF tensionAgent THEN "tension"
                 ELSE IF InfoDue(turn_number) THEN "info" ELSE "complete"
    /\ UNCHANGED <<turn_number, current_speaker_id, penaltyCount, pc, tokenUsage, asked,
                   raised, agents, wiringVars>>
    /\ initialState' = IF ConstructorCopies THEN initialState ELSE OwnProperties(variables')
    /\ LET after == ValueObjectAfter(variables, objectPrototype, valueAliasedAt, valueObject,
                                     proposal.state_mutations)
       IN /\ valueObject' = after.object
          /\ valueAliasedAt' = after.aliasedAt
    /\ UNCHANGED <<orchVars, mutVars, limVars, configVars, creationVars, sweepVars,
                   rosterVars, environmentsBuilt, returnedStates, capVars, noteVars>>

\* the tension disruptor has observed: global_tension_level is written, and
\* step stands at the await of the information disruptor or returns
TensionObserved(tension) ==
    /\ stepPc = "tension"
    /\ variables' = SetNode(variables, TensionKey, NumNode(tension))
    /\ IF InfoDue(turn_number)
       THEN /\ stepPc' = "info"
            /\ UNCHANGED turn_number
       ELSE /\ stepPc' = "returned"
            /\ turn_number' = TurnAfterValid(turn_number)
    /\ emitted' = emitted
    /\ UNCHANGED <<current_speaker_id, is_terminal, actionLogs, terminationReason,
                   penaltyCount, lastProposalWasFinal, pc, tokenUsage, appendedLog,
                   lastResponses, asked, raised, proposed, turnTokenUsage, agents,
                   wiringVars>>
    /\ initialState' = IF ConstructorCopies THEN initialState ELSE OwnProperties(variables')
    /\ UNCHANGED <<orchVars, mutVars, limVars, configVars, creationVars, sweepVars,
                   rosterVars, valueObject, valueAliasedAt, environmentsBuilt,
                   returnedStates, objectPrototype, capVars, noteVars>>

\* the information disruptor has observed: its entry is pushed, turn_number++
\* and step returns
InfoObserved ==
    /\ stepPc = "info"
    /\ actionLogs' = Append(actionLogs, DisruptorEntry(turn_number))
    /\ appendedLog' = Append(appendedLog, DisruptorEntry(turn_number))
    /\ turn_number' = TurnAfterValid(turn_number)
    /\ emitted' = emitted
    /\ stepPc' = "returned"
    /\ UNCHANGED <<current_speaker_id, is_terminal, variables, terminationReason,
                   penaltyCount, lastProposalWasFinal, pc, tokenUsage, lastResponses,
                   asked, raised, proposed, turnTokenUsage, agents, wiringVars>>
    /\ UNCHANGED metaVars

\* no disruptor is awaited after turn:complete: turn_number++ and step returns
TurnCompleted ==
    /\ stepPc = "complete"
    /\ turn_number' = TurnAfterValid(turn_number)
    /\ emitted' = emitted
    /\ stepPc' = "returned"
    /\ UNCHANGED <<current_speaker_id, is_terminal, variables, actionLogs,
                   terminationReason, penaltyCount, lastProposalWasFinal, pc, tokenUsage,
                   appendedLog, lastResponses, asked, raised, proposed, turnTokenUsage,
                   agents, wiringVars>>
    /\ UNCHANGED metaVars

\* runEpisode resumes after await this.step: the tokens are added and the
\* context maintenance runs
StepReturned ==
    /\ pc = "step"
    /\ stepPc = "returned"
    /\ tokenUsage' = tokenUsage + turnTokenUsage
    /\ actionLogs' = Pruned(turn_number, actionLogs)
    /\ emitted' = emitted \o PruneEvents(turn_number, actionLogs)
    /\ pc' = "loop"
    /\ stepPc' = "none"
    /\ turnTokenUsage' = 0
    /\ UNCHANGED <<turn_number, current_speaker_id, is_terminal, variables,
                   terminationReason, penaltyCount, lastProposalWasFinal, appendedLog,
                   lastResponses, asked, raised, proposed, agents, wiringVars>>
    /\ UNCHANGED metaVars

\* the catch of runEpisode gets EpisodeCorruptedError: the reason is written
\* and the loop is left
EpisodeCorrupted ==
    /\ pc = "step"
    /\ stepPc = "threw"
    /\ raised = "EpisodeCorruptedError"
    /\ terminationReason' = "corrupted"
    /\ emitted' = emitted
    /\ pc' = "loop"
    /\ stepPc' = "none"
    /\ UNCHANGED <<turn_number, current_speaker_id, is_terminal, variables, actionLogs,
                   penaltyCount, lastProposalWasFinal, tokenUsage, appendedLog,
                   lastResponses, asked, raised, proposed, turnTokenUsage, agents,
                   wiringVars>>
    /\ UNCHANGED metaVars

\* the catch of runEpisode gets any other error and throws it on: runEpisode
\* rejects
StepErrorRethrown ==
    /\ pc = "step"
    /\ stepPc = "threw"
    /\ raised # "EpisodeCorruptedError"
    /\ emitted' = emitted
    /\ pc' = "raised"
    /\ stepPc' = "none"
    /\ UNCHANGED <<turn_number, current_speaker_id, is_terminal, variables, actionLogs,
                   terminationReason, penaltyCount, lastProposalWasFinal, tokenUsage,
                   appendedLog, lastResponses, asked, raised, proposed, turnTokenUsage,
                   agents, wiringVars>>
    /\ UNCHANGED metaVars

\* the loop is left: runEpisode returns [finalState, this.actionLogs]
RunEpisodeReturn ==
    /\ pc = "loop"
    /\ ~LoopCondition
    /\ transcript' = actionLogs
    /\ emitted' = <<Event("episode:complete", NoSpeaker)>>
    /\ pc' = "returned"
    /\ UNCHANGED <<turn_number, current_speaker_id, is_terminal, variables, turnOrder,
                   actionLogs, terminationReason, penaltyCount, lastProposalWasFinal,
                   agentPermissions, createdAgentIds, infoDisruptor, tensionAgent,
                   tokenUsage, mountResult, appendedLog, criticTranscript, stepVars,
                   max_active_created_agents>>
    /\ UNCHANGED metaVars

\* the episode worker of the orchestrator: judge.evaluate(initialState, finalState, transcript)
JudgeEvaluate ==
    /\ pc = "returned"
    /\ criticTranscript' = transcript
    /\ emitted' = << >>
    /\ pc' = "evaluated"
    /\ UNCHANGED <<turn_number, current_speaker_id, is_terminal, variables, turnOrder,
                   actionLogs, terminationReason, penaltyCount, lastProposalWasFinal,
                   agentPermissions, createdAgentIds, infoDisruptor, tensionAgent,
                   tokenUsage, transcript, mountResult, appendedLog, stepVars,
                   max_active_created_agents>>
    /\ UNCHANGED metaVars

\* the episode worker of the orchestrator when runEpisode raises: nothing
\* catches the error, the worker's promise rejects, and with it the
\* Promise.all of the fan-out and runFullSimulation
EpisodeRejected ==
    /\ pc = "raised"
    /\ pc' = "rejected"
    /\ phase' = IF phase = "none" THEN phase ELSE "failed"
    /\ emitted' = << >>
    /\ UNCHANGED <<turn_number, current_speaker_id, is_terminal, variables, turnOrder,
                   actionLogs, terminationReason, penaltyCount, lastProposalWasFinal,
                   agentPermissions, createdAgentIds, infoDisruptor, tensionAgent,
                   tokenUsage, transcript, mountResult, appendedLog, criticTranscript,
                   stepVars, max_active_created_agents>>
    /\ UNCHANGED <<generation, activeAgents, failedArchetypes, newAgentSpec,
                   pendingEvolve, acceptedActors, plateauCounter, noAcceptStreak,
                   provisioned, mutVars, limVars>>
    /\ UNCHANGED auxVars

\* the agents records given to runEpisode: an agent for every id, or for the
\* primary actors only
AgentRecords == {AllIds, PrimaryIds}

\* the second slot of the turn order is held by a created agent: the episodes
\* run with a record that lacks the created agents
SecondIsCreated == Len(turnOrder) >= 2 /\ turnOrder[2] \in createdAgentIds

\* one episode on one Environment. The actor answers the first call of a
\* step with a proposal or an error, or fails validation on every call
Next ==
    \/ \E spec \in EpisodeMountSpecs : MountAgent(spec)
    \/ \E record \in AgentRecords :
          (record = AllIds \/ SecondIsCreated) /\ RunEpisodeStart(record)
    \/ CostCircuitBreaker
    \/ StepBegin
    \/ ProposeRetried(0)
    \/ \E tokens \in SkipTokenChoices : ProposeExhausted(tokens)
    \/ PenaltySkipReturns
    \/ ProposeCorrupted
    \/ asked = 1 /\ ProposeFailed
    \/ \E proposal \in Proposals : asked = 1 /\ ProposeRefused(proposal)
    \/ \E proposal \in Proposals, tokens \in TokenChoices :
          asked = 1 /\ ProposeValid(proposal, tokens)
    \/ \E tension \in TensionLevels : TensionObserved(tension)
    \/ InfoObserved
    \/ TurnCompleted
    \/ StepReturned
    \/ EpisodeCorrupted
    \/ StepErrorRethrown
    \/ RunEpisodeReturn
    \/ JudgeEvaluate
    \/ EpisodeRejected

Spec == Init /\ [][Next]_vars

TypeOK ==
    /\ turn_number \in 0..MaxTurnsPerEpisode
    /\ is_terminal \in BOOLEAN
    /\ pc \in {"idle", "loop", "step", "returned", "evaluated", "raised", "rejected", "none"}
    /\ stepPc \in {"none", "capitalizer", "proposeAction", "penalty", "tension", "info",
                   "complete", "returned", "threw"}
    /\ asked \in 0..MaxValidationRetries
    /\ raised \in {"none", "Error", "EpisodeCorruptedError", "PermissionViolationError",
                   "TypeError"}
    /\ agents \in SUBSET (AllIds \cup IntegerLikeIds)

(***************************************************************************)
(* One episode with every course of the validation retry loop              *)
(***************************************************************************)
RetryProposals == { Prop(<< >>, FALSE, FALSE), Prop(<< >>, TRUE, FALSE) }

RetryInit ==
    /\ \E order \in InitialOrders : EnvConstructed(order, FALSE, FALSE)
    /\ max_active_created_agents = MaxActiveCreatedAgents
    /\ OrchIdle
    /\ MutIdle
    /\ LimIdle
    /\ AuxIdle

RetryNext ==
    \/ RunEpisodeStart(AllIds)
    \/ CostCircuitBreaker
    \/ StepBegin
    \/ ProposeRetried(0)
    \/ \E tokens \in SkipTokenChoices : ProposeExhausted(tokens)
    \/ PenaltySkipReturns
    \/ ProposeCorrupted
    \/ ProposeFailed
    \/ \E proposal \in RetryProposals, tokens \in TokenChoices :
          ProposeValid(proposal, tokens)
    \/ TurnCompleted
    \/ StepReturned
    \/ EpisodeCorrupted
    \/ StepErrorRethrown
    \/ RunEpisodeReturn
    \/ EpisodeRejected

RetrySpec == RetryInit /\ [][RetryNext]_vars

(***************************************************************************)
(* Episodes run one after the other on the same Environment                *)
(***************************************************************************)
RerunInit == RetryInit

RerunNext ==
    \/ RunEpisodeStart(AllIds)
    \/ RunEpisodeAgain(AllIds)
    \/ StepBegin
    \/ ProposeRetried(0)
    \/ ProposeExhausted(0)
    \/ PenaltySkipReturns
    \/ ProposeCorrupted
    \/ \E proposal \in RetryProposals : asked = 1 /\ ProposeValid(proposal, 0)
    \/ TurnCompleted
    \/ StepReturned
    \/ EpisodeCorrupted
    \/ RunEpisodeReturn

RerunSpec == RerunInit /\ [][RerunNext]_vars

(***************************************************************************)
(* mountAgent called in any sequence on one Environment                    *)
(***************************************************************************)
MountLogics ==
    { Logic(TRUE, <<1>>), Logic(TRUE, <<2>>), Logic(TRUE, <<3>>), Logic(TRUE, <<1, 0>>),
      Logic(TRUE, <<0>>), Logic(FALSE, << >>) }
MountPerms == {Perm_S5, Perm_abort, Perm_resolve, Perm_many}
MountSpecs ==
    { AgentSpec(id, "broker", logic, perms) : id \in CreatedIdPool, logic \in MountLogics,
                                              perms \in MountPerms }

MountInit == Init
MountNext == \E spec \in MountSpecs : MountAgent(spec)
MountSpec == MountInit /\ [][MountNext]_vars

(***************************************************************************)
(* step called on the Environment by its caller, as the tests of the       *)
(* repository do, between calls of mountAgent                              *)
(***************************************************************************)
DirectProposals ==
    { Prop(<< >>, FALSE, FALSE), Prop(<< >>, TRUE, FALSE),
      Prop(<<M_add_sy, M_mod_cy>>, FALSE, FALSE),
      Prop(<<M_add_cy, M_mod_proto_z>>, FALSE, FALSE),
      Prop(<<M_add_cy, M_add_null_x>>, FALSE, FALSE) }

DirectInit == Init

\* the agents are mounted before the first turn is completed
DirectNext ==
    \/ \E spec \in EpisodeMountSpecs : turn_number = 0 /\ asked = 0 /\ MountAgent(spec)
    \/ \E record \in AgentRecords : (record = AllIds \/ SecondIsCreated) /\ StepDirect(record)
    \/ ProposeRetried(0)
    \/ ProposeExhausted(0)
    \/ PenaltySkipReturns
    \/ ProposeCorrupted
    \/ ProposeFailed
    \/ \E proposal \in DirectProposals : ProposeRefused(proposal)
    \/ \E proposal \in DirectProposals : ProposeApplyThrew(proposal)
    \/ \E proposal \in DirectProposals : ProposeValid(proposal, 1)
    \/ \E tension \in TensionLevels : TensionObserved(tension)
    \/ InfoObserved
    \/ TurnCompleted

DirectSpec == DirectInit /\ [][DirectNext]_vars

(***************************************************************************)
(* core/statistics: scores are integers and every comparison is exact      *)
(***************************************************************************)
RECURSIVE SumSeq(_)
SumSeq(xs) == IF xs = << >> THEN 0 ELSE xs[1] + SumSeq(Tail(xs))

SumSquares(xs) == SumSeq([i \in 1..Len(xs) |-> xs[i] * xs[i]])

\* mean(xs) is SumSeq(xs) / MeanDen(xs): zero for empty input
MeanDen(xs) == IF xs = << >> THEN 1 ELSE Len(xs)

\* mean(xs) > mean(ys) + num / den
meanExceeds(xs, ys, num, den) ==
    SumSeq(xs) * MeanDen(ys) * den >
        SumSeq(ys) * MeanDen(xs) * den + num * MeanDen(xs) * MeanDen(ys)

\* the population variance of xs times MeanDen(xs) squared
ScaledVariance(xs) == MeanDen(xs) * SumSquares(xs) - SumSeq(xs) * SumSeq(xs)

\* a + sqrt(p) > sqrt(q), for p >= 0 and q >= 0
SqrtGreater(a, p, q) ==
    IF a >= 0
    THEN LET r == q - a * a - p
         IN r < 0 \/ 4 * a * a * p > r * r
    ELSE LET r == p - q - a * a
         IN r > 0 /\ r * r > 4 * a * a * q

\* lowerConfidenceBound(xs, lambda) > lowerConfidenceBound(ys, lambda), for
\* the bound mean - lambda * population standard deviation
lcbGreater(xs, ys, lambda) ==
    SqrtGreater(MeanDen(ys) * SumSeq(xs) - MeanDen(xs) * SumSeq(ys),
                (MeanDen(xs) * lambda) * (MeanDen(xs) * lambda) * ScaledVariance(ys),
                (MeanDen(ys) * lambda) * (MeanDen(ys) * lambda) * ScaledVariance(xs))

\* lowerConfidenceBound(xs, lambda) > mean(ys) + num / den
lcbExceeds(xs, lambda, ys, num, den) ==
    SqrtGreater(SumSeq(xs) * MeanDen(ys) * den
                    - MeanDen(xs) * (SumSeq(ys) * den + num * MeanDen(ys)),
                0,
                (MeanDen(ys) * den * lambda) * (MeanDen(ys) * den * lambda)
                    * ScaledVariance(xs))

\* twice the U statistic of a against b: a pair counts 2 when the a score is
\* the larger one and 1 when the two are tied
TwiceU(a, b) ==
    2 * Cardinality({ij \in (1..Len(a)) \X (1..Len(b)) : a[ij[1]] > b[ij[2]]})
      + Cardinality({ij \in (1..Len(a)) \X (1..Len(b)) : a[ij[1]] = b[ij[2]]})

\* the tie correction: the sum of t^3 - t over the groups of tied scores
TieTerm(c) ==
    SumSeq([i \in 1..Len(c) |->
              LET t == Cardinality({j \in 1..Len(c) : c[j] = c[i]}) IN t * t - 1])

\* the square of the two-sided normal critical value at the
\* acceptance_p_value_threshold of 0.05, 1.959964^2, as a fraction
ZCritSquaredNum == 7683
ZCritSquaredDen == 2000

\* mannWhitneyUTest(a, b).pValue < acceptance_p_value_threshold: with
\* z = (U - n1*n2/2) / sigma and the tie-corrected
\* sigma^2 = n1*n2 * (N^3 - N - TieTerm) / (12 * N * (N - 1)), the two-sided
\* p-value is below the threshold exactly when z^2 is above the critical
\* value squared; p is 1 for a sample of at most one score
pValueBelowThreshold(a, b) ==
    LET n1 == Len(a)
        n2 == Len(b)
        N == n1 + n2
        d == TwiceU(a, b) - n1 * n2
    IN /\ n1 > 1
       /\ n2 > 1
       /\ d * d * 3 * N * (N - 1) * ZCritSquaredDen >
            ZCritSquaredNum * n1 * n2 * (N * N * N - N - TieTerm(a \o b))

(***************************************************************************)
(* Capitalizer.analyzeOverlap and the interjection of step: texts are       *)
(* sequences of characters                                                 *)
(***************************************************************************)
FragmentMinLength == 20

\* the characters of /[.?!;\n]/
SentenceEnds == {".", "?", "!", ";", "\n"}

\* the characters String.prototype.trim strips, WhiteSpace and LineTerminator
\* of ECMAScript: TAB, VT, FF, SP, NBSP, ZWNBSP, the other characters of the
\* Unicode class Zs, LF, CR, LS and PS. A character with no escape in a
\* string of this module is one character of a text, named by its code point
WhiteSpace ==
    {"\t", "U+000B", "\f", " ", "U+00A0", "U+FEFF",
     "U+1680", "U+2000", "U+2001", "U+2002", "U+2003", "U+2004", "U+2005",
     "U+2006", "U+2007", "U+2008", "U+2009", "U+200A", "U+202F", "U+205F",
     "U+3000",
     "\n", "\r", "U+2028", "U+2029"}

\* String.prototype.split(/[.?!;\n]/)
RECURSIVE SplitSentences(_, _, _)
SplitSentences(text, i, cur) ==
    IF i > Len(text) THEN <<cur>>
    ELSE IF text[i] \in SentenceEnds THEN <<cur>> \o SplitSentences(text, i + 1, << >>)
    ELSE SplitSentences(text, i + 1, Append(cur, text[i]))

\* String.prototype.trim
RECURSIVE TrimStart(_)
TrimStart(text) ==
    IF text # << >> /\ Head(text) \in WhiteSpace THEN TrimStart(Tail(text)) ELSE text

RECURSIVE TrimEnd(_)
TrimEnd(text) ==
    IF text # << >> /\ text[Len(text)] \in WhiteSpace
    THEN TrimEnd(SubSeq(text, 1, Len(text) - 1)) ELSE text

Trim(text) == TrimEnd(TrimStart(text))

\* String.prototype.includes
Includes(text, part) ==
    \E i \in 1..(Len(text) - Len(part) + 1) : SubSeq(text, i, i + Len(part) - 1) = part

\* split, trim, filter(s => s.length > 20)
Fragments(monologue) ==
    LET sentences == SplitSentences(monologue, 1, << >>)
    IN {Trim(sentences[i]) : i \in {j \in 1..Len(sentences) :
                                        Len(Trim(sentences[j])) > FragmentMinLength}}

Redacted ==
    <<"[", "R", "E", "D", "A", "C", "T", "E", "D", " ", "B", "Y", " ", "P",
      "R", "I", "V", "A", "C", "Y", " ", "F", "I", "L", "T", "E", "R", ":",
      " ", "A", "t", "t", "e", "m", "p", "t", "e", "d", " ", "t", "o", " ",
      "l", "e", "a", "k", " ", "i", "n", "t", "e", "r", "n", "a", "l", " ",
      "m", "o", "n", "o", "l", "o", "g", "u", "e", "]">>

\* the privacy filter of analyzeOverlap: the hint of the model, or the
\* redaction notice when the hint includes a fragment of a monologue
analyzeOverlap(logs, hint) ==
    IF \E i \in 1..Len(logs) :
          /\ logs[i].internal_monologue # << >>
          /\ \E fragment \in Fragments(logs[i].internal_monologue) : Includes(hint, fragment)
    THEN Redacted ELSE hint

LogEntry(speakerId, monologue) == [speakerId |-> speakerId, internal_monologue |-> monologue]

\* monologues of agent_b: one sentence, three sentences of which one is a
\* fragment, a short one, and (below) one with white space at its edges
Monologue_one ==
    <<"I", " ", "w", "i", "l", "l", " ", "b", "e", "t", "r", "a", "y", " ",
      "t", "h", "e", "m", " ", "a", "t", " ", "t", "h", "e", " ", "s", "u",
      "m", "m", "i", "t">>

Monologue_three ==
    <<"S", "t", "a", "l", "l", ".", " ", "C", "o", "n", "c", "e", "d", "e",
      " ", "n", "o", "t", "h", "i", "n", "g", " ", "o", "n", " ", "f", "u",
      "e", "l", ";", " ", "t", "h", "e", "y", " ", "a", "r", "e", " ", "d",
      "e", "s", "p", "e", "r", "a", "t", "e">>

Monologue_short ==
    <<"H", "o", "l", "d", " ", "f", "i", "r", "m">>

\* a sentence between white space that is not blank, tab or line break: a
\* form feed and a no-break space before it, a line tabulation and an
\* ideographic space after it
Monologue_edged ==
    <<"\f", "U+00A0", "H", "o", "l", "d", " ", "f", "i", "r", "m", " ", "o",
      "n", " ", "t", "h", "e", " ", "t", "a", "r", "i", "f", "f", "s",
      "U+000B", "U+3000">>

\* the monologue of agent_a, the speaker the hint is made for
Monologue_own ==
    <<"W", "e", " ", "s", "h", "o", "u", "l", "d", " ", "o", "f", "f", "e",
      "r", " ", "a", " ", "t", "r", "a", "d", "e", " ", "o", "n", " ", "s",
      "u", "b", "s", "i", "d", "i", "e", "s", " ", "n", "o", "w">>

CapMonologues == {Monologue_one, Monologue_three, Monologue_short, Monologue_edged}

\* this.actionLogs.slice(-4)
CapLogs ==
    { <<LogEntry("agent_b", m)>> : m \in CapMonologues }
        \cup { <<LogEntry("agent_a", Monologue_own), LogEntry("agent_b", m)>> :
                  m \in CapMonologues }

HintLead == <<"T", "r", "y", ":", " ">>

\* the quotes of at least FragmentMinLength - 1 characters of a text
Quotes(text) ==
    { SubSeq(text, p[1], p[2]) :
        p \in { q \in (1..Len(text)) \X (1..Len(text)) :
                    q[2] - q[1] + 1 >= FragmentMinLength - 1 } }

\* the hints of the Capitalizer's model: advice in its own words, and advice
\* that quotes a monologue of the log
CapHints(logs) ==
    {HintLead}
        \cup UNION { { HintLead \o quote : quote \in Quotes(logs[k].internal_monologue) } :
                       k \in 1..Len(logs) }

\* the proposal of turn 1, the last turn before the interjection
CapLastProposals == {Prop(<< >>, FALSE, FALSE), Prop(<<M_add_cy>>, TRUE, FALSE)}

\* the entries of the action log whose texts are logs: the turns up to turn
\* 1, of which the last made the proposal last
CapEntries(logs, last) ==
    [i \in 1..Len(logs) |->
        ActorEntry(i + 1 - Len(logs), logs[i].speakerId,
                   IF i = Len(logs) THEN last ELSE Prop(<< >>, FALSE, FALSE))]

\* the proposals of the actor in the step that follows the interjection
CapProposals == {Prop(<< >>, TRUE, FALSE)}

\* an Environment with a Capitalizer wired, after step was called for turn 0
\* and for turn 1: the log holds the entries the Capitalizer will be given,
\* and agent_a, the speaker of turn 2, was skipped with a penalty at turn 0
\* when the log has no entry of it
CapInit ==
    /\ recentLogs \in CapLogs
    /\ turn_number = 2
    /\ current_speaker_id = "agent_b"
    /\ is_terminal = FALSE
    /\ \E last \in CapLastProposals :
          /\ variables = ApplyAll(InitialVariables, NoPrototypeKeys,
                                  last.state_mutations).tree
          /\ actionLogs = CapEntries(recentLogs, last)
          /\ lastProposalWasFinal = last.propose_resolution
          /\ proposed = last
    /\ turnOrder = <<"agent_a", "agent_b">>
    /\ terminationReason = "timeout"
    /\ penaltyCount = [NoPenalties EXCEPT !["agent_a"] = 2 - Len(recentLogs)]
    /\ agentPermissions = << >>
    /\ createdAgentIds = {}
    /\ infoDisruptor = FALSE
    /\ tensionAgent = FALSE
    /\ pc = "idle"
    /\ tokenUsage = 0
    /\ transcript = << >>
    /\ emitted = << >>
    /\ mountResult = "none"
    /\ appendedLog = actionLogs
    /\ criticTranscript = << >>
    /\ lastResponses = <<"valid">>
    /\ asked = 1
    /\ raised = "none"
    /\ stepPc = "returned"
    /\ turnTokenUsage = 0
    /\ agents = PrimaryIds
    /\ max_active_created_agents = MaxActiveCreatedAgents
    /\ OrchIdle
    /\ MutIdle
    /\ LimIdle
    /\ ConfigDefault
    /\ approvalAnswer = "none"
    /\ lastCreationAttempt = -1
    /\ gateScores = NoScores
    /\ scout_hypotheses = -1
    /\ agentObjects = InitialAgents
    /\ evolved = NoEvolved
    /\ CloneIdle
    /\ NoteIdle
    /\ strategic_hint \in CapHints(recentLogs)
    /\ capitalizer_hint = << >>
    /\ capPc = "wired"
    /\ hintAtCall = << >>

\* the awaited analyzeOverlap returns: the hint, computed from the last log
\* entries, is stored in state.injections, and the retry loop makes its first
\* call of proposeAction; logs: the entries the Capitalizer was given, hint:
\* the strategic_hint of its model
CapitalizerInterjection(logs, hint) ==
    /\ stepPc = "capitalizer"
    /\ recentLogs' = logs
    /\ strategic_hint' = hint
    /\ capitalizer_hint' = analyzeOverlap(logs, hint)
    /\ capPc' = "injected"
    /\ asked' = 1
    /\ stepPc' = "proposeAction"
    /\ emitted' = << >>
    /\ UNCHANGED hintAtCall
    /\ UNCHANGED <<turn_number, current_speaker_id, is_terminal, variables, actionLogs,
                   terminationReason, penaltyCount, lastProposalWasFinal, pc, tokenUsage,
                   appendedLog, lastResponses, raised, proposed, turnTokenUsage, agents,
                   wiringVars>>
    /\ UNCHANGED <<orchVars, mutVars, limVars, configVars, creationVars, sweepVars,
                   rosterVars, cloneVars, noteVars>>

\* step is called while the log ends with the entries the Capitalizer is
\* given, runs the interjection and then the retry loop: the actor's proposal
\* parses, or the attempts fail and the step is a penalized skip or corrupts
\* the episode
CapNext ==
    \/ actionLogs = appendedLog /\ Len(actionLogs) = Len(recentLogs) /\ StepDirect(PrimaryIds)
    \/ CapitalizerInterjection(recentLogs, strategic_hint)
    \/ ProposeRetried(0)
    \/ ProposeExhausted(0)
    \/ PenaltySkipReturns
    \/ ProposeCorrupted
    \/ \E proposal \in CapProposals : ProposeValid(proposal, 1)
    \/ TurnCompleted

CapSpec == CapInit /\ [][CapNext]_vars

(***************************************************************************)
(* runFullSimulation: the generation loop                                  *)
(*                                                                         *)
(* The episodes of an epoch, and the trials of a shadow test, run on       *)
(* Environments that are built alike and share nothing; one of them is     *)
(* followed.  The Environments of the epoch get the meta-agents that       *)
(* runFullSimulation was given, the others get none.  What evolve returns  *)
(* depends on the scores the Critic gives, so it is an input of the        *)
(* mutation phase; the gate itself is followed in the evolve section       *)
(* below.                                                                  *)
(***************************************************************************)
MaxGenerations == 3
ImprovementMarginNum == 1
ImprovementMarginDen == 2

\* Object.keys(agents)
AgentsKeys == <<"agent_a", "agent_b">>

\* specs that pass the guardrails of Provisioner.designAgent: agents of one
\* archetype, two under ids of their own, one under the id of a primary
\* actor and one under an id that is an array index (agent_id is any string
\* the Provisioner's model returns)
ProvisionerSpecs ==
    { AgentSpec("broker_01", "mediator", Logic(TRUE, <<1>>), Perm_S5),
      AgentSpec("broker_02", "mediator", Logic(TRUE, <<2>>), Perm_overlap),
      AgentSpec("agent_a", "mediator", Logic(TRUE, <<1>>), Perm_S5),
      AgentSpec("7", "mediator", Logic(TRUE, <<1>>), Perm_S5) }

designAgentGuardrails(spec) ==
    /\ ~spec.permissions.can_abort_episode
    /\ ~spec.permissions.can_propose_resolution
    /\ ~(spec.permissions.max_state_mutations_per_turn > 3)

OrchProposals ==
    { Prop(<< >>, FALSE, TRUE), Prop(<< >>, TRUE, FALSE),
      Prop(<<M_add_cy>>, FALSE, FALSE) }

\* the tokens of a valid turn inside the generation loop
OrchTokenChoices == {MaxCallTokens}

\* the scores the Critic gave in the epoch, all actors and episodes together
CreationBaseSamples == { [i \in 1..(EpochSize * Cardinality(PrimaryIds)) |-> 2] }

\* the per-trial means of the primary actors' scores in the shadow trials,
\* one per trial
CreationShadowSamples ==
    { << >>,
      [i \in 1..ShadowTrialCount |-> 2], [i \in 1..ShadowTrialCount |-> 3],
      [i \in 1..ShadowTrialCount |-> IF i = 1 THEN 0 ELSE 6] }

\* new EnvironmentManager(structuredClone(initialState), config) followed by
\* env.turnOrder = order and by setCapitalizer, setTensionAgent and
\* setInfoDisruptor for the meta-agents that are wired, as the next state;
\* position "none" stands for the time between two Environments
WiredEnvironmentManager(order, position, wired) ==
    /\ turn_number' = 0
    /\ current_speaker_id' = "agent_a"
    /\ is_terminal' = FALSE
    /\ variables' = initialState
    /\ turnOrder' = order
    /\ actionLogs' = << >>
    /\ terminationReason' = "timeout"
    /\ penaltyCount' = NoPenalties
    /\ lastProposalWasFinal' = FALSE
    /\ agentPermissions' = << >>
    /\ createdAgentIds' = {}
    /\ infoDisruptor' = wired.infoDisruptor
    /\ tensionAgent' = wired.tensionDisruptor
    /\ capPc' = IF wired.capitalizer THEN "wired" ELSE "idle"
    /\ recentLogs' = << >>
    /\ strategic_hint' = << >>
    /\ capitalizer_hint' = << >>
    /\ hintAtCall' = << >>
    /\ pc' = position
    /\ tokenUsage' = 0
    /\ transcript' = << >>
    /\ emitted' = << >>
    /\ mountResult' = "none"
    /\ appendedLog' = << >>
    /\ criticTranscript' = << >>
    /\ lastResponses' = << >>
    /\ proposed' = NoProposal
    /\ asked' = 0
    /\ raised' = "none"
    /\ stepPc' = "none"
    /\ turnTokenUsage' = 0
    /\ agents' = {}
    /\ max_active_created_agents' = max_active_created_agents

\* an Environment that gets no meta-agent: those of runShadowTrial, of the
\* creation phase and of a caller that sets none
NewEnvironmentManager(order, position) ==
    WiredEnvironmentManager(order, position, NoOptions)

\* values of config.max_active_created_agents: none allowed, or the cap
SpawnCaps == {0, MaxActiveCreatedAgents}

\* the configurations runFullSimulation is started with: creation_patience
\* (the smallest value and the bound), require_human_approval_for_creation,
\* whether onCreationApproval is supplied, whether an Explorer is wired,
\* scout_sweep_interval_generations, shadow_trial_count (an integer the
\* schema does not bound: no trial, or the bound), and the meta-agents
\* supplied (none, all three, or the information disruptor alone)
OrchConfig(patience, require, callback, wired, interval, trials, metaAgents) ==
    [creation_patience |-> patience, require_human_approval_for_creation |-> require,
     onCreationApproval |-> callback, explorer |-> wired,
     scout_sweep_interval_generations |-> interval, shadow_trial_count |-> trials,
     options |-> metaAgents]

OrchConfigs ==
    { OrchConfig(1, TRUE, TRUE, TRUE, 1, ShadowTrialCount, Options(TRUE, TRUE, TRUE)),
      OrchConfig(1, TRUE, FALSE, TRUE, 2, ShadowTrialCount, NoOptions),
      OrchConfig(1, FALSE, FALSE, FALSE, 1, 0, Options(FALSE, FALSE, TRUE)),
      OrchConfig(CreationPatience, TRUE, TRUE, TRUE, 2, ShadowTrialCount, NoOptions) }

OrchInit ==
    /\ EnvConstructed(AgentsKeys, FALSE, FALSE)
    /\ max_active_created_agents \in SpawnCaps
    /\ generation = 0
    /\ phase = "start"
    /\ activeAgents = AgentsKeys
    /\ failedArchetypes = << >>
    /\ newAgentSpec = NoSpec
    /\ pendingEvolve = {}
    /\ acceptedActors = {}
    /\ plateauCounter = 0
    /\ noAcceptStreak = 0
    /\ provisioned = << >>
    /\ MutIdle
    /\ LimIdle
    /\ \E c \in OrchConfigs :
          /\ creation_patience = c.creation_patience
          /\ require_human_approval_for_creation = c.require_human_approval_for_creation
          /\ onCreationApproval = c.onCreationApproval
          /\ explorer = c.explorer
          /\ scout_sweep_interval_generations = c.scout_sweep_interval_generations
          /\ shadow_trial_count = c.shadow_trial_count
          /\ options = c.options
    /\ max_active_created_agents = 0 => creation_patience = 1 /\ onCreationApproval
    /\ approvalAnswer = "none"
    /\ lastCreationAttempt = -1
    /\ gateScores = NoScores
    /\ scout_hypotheses = -1
    /\ agentObjects = InitialAgents
    /\ evolved = NoEvolved
    /\ CloneIdle
    /\ CapIdle
    /\ NoteIdle

\* the Explorer sweep at the end of the loop body
SweepDue(wired, g, interval) == wired /\ g % interval = 0

\* the for loop goes to its next iteration with the given roster, or ends
NextGeneration(roster) ==
    /\ generation' = generation + 1
    /\ phase' = IF generation + 1 < MaxGenerations THEN "start" ELSE "done"
    /\ NewEnvironmentManager(roster, "none")

\* the end of the loop body: a due sweep awaits explorer.scan() before the
\* loop goes on
SweepOrNext(roster) ==
    /\ UNCHANGED scout_hypotheses
    /\ IF SweepDue(explorer, generation, scout_sweep_interval_generations)
       THEN /\ phase' = "sweep"
            /\ UNCHANGED generation
            /\ NewEnvironmentManager(roster, "none")
       ELSE NextGeneration(roster)

\* explorer.scan() returned: initialState.scout_hypotheses is overwritten
ExplorerScanned ==
    /\ phase = "sweep"
    /\ scout_hypotheses' = generation
    /\ NextGeneration(activeAgents)
    /\ UNCHANGED <<activeAgents, failedArchetypes, newAgentSpec, pendingEvolve,
                   acceptedActors, plateauCounter, noAcceptStreak, provisioned, mutVars, limVars>>
    /\ UNCHANGED <<configVars, creationVars, rosterVars, cloneVars,
                   noteVars>>

\* the Environment of an epoch episode: new EnvironmentManager on the
\* roster, and the meta-agents runFullSimulation was given are set on it
EpochEnvConstructed ==
    /\ phase = "start"
    /\ phase' = "epoch"
    /\ WiredEnvironmentManager(activeAgents, "idle", options)
    /\ UNCHANGED <<generation, activeAgents, failedArchetypes, newAgentSpec,
                   pendingEvolve, acceptedActors, plateauCounter, noAcceptStreak,
                   provisioned, mutVars, limVars>>
    /\ UNCHANGED <<configVars, creationVars, sweepVars, rosterVars, cloneVars,
                   noteVars>>

\* the keys of a record whose Object.keys is the given list
KeysOf(roster) == {roster[i] : i \in 1..Len(roster)}

\* env.runEpisode(activeAgents) of an epoch episode
EpochRunEpisode ==
    /\ phase = "epoch"
    /\ RunEpisodeStart(KeysOf(activeAgents))

\* the epoch is awaited; the mutation phase starts one evolve call per
\* primary actor
EpochCollected ==
    /\ phase = "epoch"
    /\ pc = "evaluated"
    /\ phase' = "mutation"
    /\ pendingEvolve' = {AgentsKeys[i] : i \in 1..Len(AgentsKeys)}
    /\ acceptedActors' = {}
    /\ NewEnvironmentManager(activeAgents, "none")
    /\ UNCHANGED <<generation, activeAgents, failedArchetypes, newAgentSpec,
                   plateauCounter, noAcceptStreak, provisioned, mutVars, limVars>>
    /\ evolved' = NoEvolved
    /\ UNCHANGED <<configVars, creationVars, sweepVars, agentObjects, cloneVars,
                   noteVars>>

\* Phase C of evolve on the shared Mutator
PlateauAfter(counter, accepted) == IF accepted THEN 0 ELSE counter + 1

\* one of the concurrent evolve calls returns, after the last of its trial
\* batches
EvolveReturns(primaryActorId, accepted) ==
    /\ phase = "mutation"
    /\ primaryActorId \in pendingEvolve
    /\ Outstanding(primaryActorId) = 0
    /\ evolveBatches[primaryActorId] = << >>
    /\ plateauCounter' = PlateauAfter(plateauCounter, accepted)
    /\ pendingEvolve' = pendingEvolve \ {primaryActorId}
    /\ acceptedActors' = IF accepted THEN acceptedActors \cup {primaryActorId}
                         ELSE acceptedActors
    /\ UNCHANGED <<generation, phase, activeAgents, failedArchetypes, newAgentSpec,
                   noAcceptStreak, provisioned, mutVars, limVars, envVars>>
    /\ \E v \in MutatorVariants :
          evolved' = [evolved EXCEPT ![primaryActorId] =
                         IF accepted
                         THEN withMutatedStrategy(agentObjects[primaryActorId],
                                                  v.strategy_text, v.hyperparameters)
                         ELSE NoAgent]
    /\ UNCHANGED <<configVars, creationVars, sweepVars, agentObjects, cloneVars, capVars,
                   noteVars>>

\* await Promise.all(mutationPromises): every evolve call has returned
MutationsAwaited_first(pending) == pending # PrimaryIds

MutationsAwaited(pending) == pending = {}

\* Promise.all(mutationPromises) is settled
MutationsSettled == phase = "mutation" /\ MutationsAwaited(pendingEvolve)

\* if (anyMutationSucceeded) continue
CreationSkipped_never(anyMutationSucceeded) == FALSE

CreationSkipped(anyMutationSucceeded) == anyMutationSucceeded

\* anyMutationSucceeded: the winners are committed, creation is skipped
MutationSucceeded ==
    /\ MutationsSettled
    /\ CreationSkipped(acceptedActors # {})
    /\ noAcceptStreak' = 0
    /\ NextGeneration(activeAgents)
    /\ UNCHANGED <<activeAgents, failedArchetypes, newAgentSpec, pendingEvolve,
                   acceptedActors, plateauCounter, provisioned, mutVars, limVars>>
    /\ agentObjects' = CommitMutations(agentObjects, evolved)
    /\ UNCHANGED <<configVars, creationVars, sweepVars, evolved, cloneVars,
                   noteVars>>

\* Mutator.isPlateaued
isPlateaued(counter, patience) == counter >= patience

\* no mutation succeeded and the Mutator is not plateaued
NoPlateau ==
    /\ MutationsSettled
    /\ ~CreationSkipped(acceptedActors # {})
    /\ ~isPlateaued(plateauCounter, creation_patience)
    /\ noAcceptStreak' = noAcceptStreak + 1
    /\ SweepOrNext(activeAgents)
    /\ UNCHANGED <<activeAgents, failedArchetypes, newAgentSpec, pendingEvolve,
                   acceptedActors, plateauCounter, provisioned, mutVars, limVars>>
    /\ UNCHANGED <<configVars, creationVars, rosterVars, cloneVars,
                   noteVars>>

\* no mutation succeeded and the Mutator is plateaued: provisioner.designAgent
DesignAgent(spec) ==
    /\ MutationsSettled
    /\ ~CreationSkipped(acceptedActors # {})
    /\ isPlateaued(plateauCounter, creation_patience)
    /\ designAgentGuardrails(spec)
    /\ noAcceptStreak' = noAcceptStreak + 1
    /\ newAgentSpec' = spec
    /\ provisioned' = [id \in DOMAIN provisioned \cup {spec.agent_id} |->
                          IF id = spec.agent_id THEN spec.permissions ELSE provisioned[id]]
    /\ phase' = "approval"
    /\ UNCHANGED <<generation, activeAgents, failedArchetypes, pendingEvolve,
                   acceptedActors, plateauCounter, mutVars, limVars, envVars>>
    /\ approvalAnswer' = "none"
    /\ lastCreationAttempt' = generation
    /\ UNCHANGED <<configVars, gateScores, sweepVars, rosterVars, cloneVars, capVars,
                   noteVars>>

\* the human-in-the-loop gate: the answer of onCreationApproval counts when
\* approval is required, and a missing callback counts as a refusal
Approved_absentPasses(require, callback, answer) ==
    IF require THEN (IF callback THEN answer ELSE TRUE) ELSE TRUE

Approved(require, callback, answer) ==
    IF require THEN (IF callback THEN answer ELSE FALSE) ELSE TRUE

\* what the gate did: the callback's answer, "absent" without a callback,
\* "not_required" when the configuration asks for no approval
GateRecord(require, callback, answer) ==
    IF ~require THEN "not_required"
    ELSE IF ~callback THEN "absent"
    ELSE IF answer THEN "true" ELSE "false"

\* the approval callback declines (or is absent)
CreationDeclined ==
    /\ phase = "approval"
    /\ \E answer \in BOOLEAN :
          /\ ~Approved(require_human_approval_for_creation, onCreationApproval, answer)
          /\ approvalAnswer' = GateRecord(require_human_approval_for_creation,
                                          onCreationApproval, answer)
    /\ NextGeneration(activeAgents)
    /\ UNCHANGED <<activeAgents, failedArchetypes, newAgentSpec, pendingEvolve,
                   acceptedActors, plateauCounter, noAcceptStreak, provisioned, mutVars, limVars>>
    /\ UNCHANGED <<configVars, gateScores, lastCreationAttempt, sweepVars,
                   rosterVars, cloneVars,
                   noteVars>>

\* the creation is approved: shadowEnv is built on the live roster
ShadowEnvConstructed ==
    /\ phase = "approval"
    /\ \E answer \in BOOLEAN :
          /\ Approved(require_human_approval_for_creation, onCreationApproval, answer)
          /\ approvalAnswer' = GateRecord(require_human_approval_for_creation,
                                          onCreationApproval, answer)
    /\ phase' = "shadow_mount"
    /\ NewEnvironmentManager(activeAgents, "idle")
    /\ UNCHANGED <<generation, activeAgents, failedArchetypes, newAgentSpec,
                   pendingEvolve, acceptedActors, plateauCounter, noAcceptStreak,
                   provisioned, mutVars, limVars>>
    /\ UNCHANGED <<configVars, gateScores, lastCreationAttempt, sweepVars,
                   rosterVars, cloneVars,
                   noteVars>>

\* shadowEnv.mountAgent(newAgentSpec, llmClient)
ShadowMountAgent ==
    /\ phase = "shadow_mount"
    /\ mountResult = "none"
    /\ MountAgent(newAgentSpec)

\* shadowEnv.mountAgent raised MaxAgentsExceededError: nothing catches it and
\* runFullSimulation rejects
CreationMountRaised ==
    /\ phase = "shadow_mount"
    /\ mountResult = "MaxAgentsExceeded"
    /\ phase' = "failed"
    /\ UNCHANGED <<generation, activeAgents, failedArchetypes, newAgentSpec,
                   pendingEvolve, acceptedActors, plateauCounter, noAcceptStreak,
                   provisioned, mutVars, limVars>>
    /\ UNCHANGED envVars
    /\ UNCHANGED auxVars

\* a trial Environment of the shadow test: a new EnvironmentManager that is
\* given shadowEnv.turnOrder
TrialEnvConstructed ==
    /\ phase = "shadow_mount"
    /\ mountResult = "mounted"
    /\ shadow_trial_count > 0
    /\ phase' = "creation_trial"
    /\ NewEnvironmentManager(turnOrder, "idle")
    /\ UNCHANGED <<generation, activeAgents, failedArchetypes, newAgentSpec,
                   pendingEvolve, acceptedActors, plateauCounter, noAcceptStreak,
                   provisioned, mutVars, limVars>>
    /\ UNCHANGED <<configVars, creationVars, sweepVars, rosterVars, cloneVars,
                   noteVars>>

\* env.runEpisode(shadowAgents) of a trial, shadowAgents being
\* { ...activeAgents, [newAgentSpec.agent_id]: shadowAgent }
ShadowTrialRunEpisode ==
    /\ phase = "creation_trial"
    /\ RunEpisodeStart(KeysOf(activeAgents) \cup {newAgentSpec.agent_id})

\* await Promise.all(shadowTrialPromises) of the trial Environment; with no
\* trial the promise of the empty list is settled after the mount
TrialsAwaited ==
    IF shadow_trial_count = 0
    THEN phase = "shadow_mount" /\ mountResult = "mounted"
    ELSE phase = "creation_trial" /\ pc = "evaluated"

\* shadowAvg > baseAvg + config.improvement_margin, both averages being
\* reduce(...) / length: NaN for an empty list, and no comparison with NaN
\* is true
CreationGate(trialMeans, baseScores) ==
    /\ Len(trialMeans) > 0
    /\ Len(baseScores) > 0
    /\ meanExceeds(trialMeans, baseScores, ImprovementMarginNum, ImprovementMarginDen)

\* the gate passes: an Environment is built on the live roster for the mount
GatePassed(trialMeans, baseScores) ==
    /\ CreationGate(trialMeans, baseScores)
    /\ gateScores' = [shadow |-> trialMeans, base |-> baseScores]
    /\ phase' = "live_mount"
    /\ NewEnvironmentManager(activeAgents, "idle")
    /\ UNCHANGED <<generation, activeAgents, failedArchetypes, newAgentSpec,
                   pendingEvolve, acceptedActors, plateauCounter, noAcceptStreak,
                   provisioned, mutVars, limVars>>
    /\ UNCHANGED <<configVars, approvalAnswer, lastCreationAttempt, sweepVars,
                   rosterVars, cloneVars,
                   noteVars>>

\* the gate fails: failedArchetypes.push(newAgentSpec.archetype), then the
\* end of the loop body
GateFailed(trialMeans, baseScores) ==
    /\ ~CreationGate(trialMeans, baseScores)
    /\ gateScores' = [shadow |-> trialMeans, base |-> baseScores]
    /\ failedArchetypes' = Append(failedArchetypes, newAgentSpec.archetype)
    /\ SweepOrNext(activeAgents)
    /\ UNCHANGED <<activeAgents, newAgentSpec, pendingEvolve, acceptedActors,
                   plateauCounter, noAcceptStreak, provisioned, mutVars, limVars>>
    /\ UNCHANGED <<configVars, approvalAnswer, lastCreationAttempt, rosterVars, cloneVars,
                   noteVars>>

CreationAccepted(trialMeans, baseScores) ==
    /\ TrialsAwaited
    /\ Len(trialMeans) = shadow_trial_count
    /\ GatePassed(trialMeans, baseScores)

CreationRejected(trialMeans, baseScores) ==
    /\ TrialsAwaited
    /\ Len(trialMeans) = shadow_trial_count
    /\ GateFailed(trialMeans, baseScores)

\* env.mountAgent(newAgentSpec, llmClient) for the live roster
LiveMountAgent ==
    /\ phase = "live_mount"
    /\ mountResult = "none"
    /\ MountAgent(newAgentSpec)

\* the number an id stands for when it is an array index (a canonical
\* numeric string), -1 for every other id
ArrayIndex(id) == IF id = "7" THEN 7 ELSE -1

\* activeAgents[newAgentSpec.agent_id] = newAgent, as Object.keys lists the
\* record afterwards: the array indices in ascending order first, then the
\* other keys in the order they were added; a key the record has keeps its
\* place
RosterWith(roster, agentId) ==
    IF \E i \in 1..Len(roster) : roster[i] = agentId THEN roster
    ELSE IF ArrayIndex(agentId) >= 0
    THEN LET before == Cardinality({i \in 1..Len(roster) :
                                        /\ ArrayIndex(roster[i]) >= 0
                                        /\ ArrayIndex(roster[i]) < ArrayIndex(agentId)})
         IN SubSeq(roster, 1, before) \o <<agentId>>
                \o SubSeq(roster, before + 1, Len(roster))
    ELSE Append(roster, agentId)

\* the mounted agent is written to the live roster, then the end of the loop
\* body
LiveRosterUpdated ==
    /\ phase = "live_mount"
    /\ mountResult = "mounted"
    /\ activeAgents' = RosterWith(activeAgents, newAgentSpec.agent_id)
    /\ SweepOrNext(activeAgents')
    /\ UNCHANGED <<failedArchetypes, newAgentSpec, pendingEvolve, acceptedActors,
                   plateauCounter, noAcceptStreak, provisioned, mutVars, limVars>>
    /\ agentObjects' = WithMounted(agentObjects, newAgentSpec)
    /\ UNCHANGED <<configVars, creationVars, evolved, cloneVars,
                   noteVars>>

\* the number of entries the Capitalizer is given
RecentLogCount == 4

\* this.actionLogs.slice(-4) with the texts the Capitalizer reads: every
\* proposal of the generation loop carries the same short monologue, and an
\* entry of the information disruptor has none
RecentLogs(log) ==
    LET first == IF Len(log) > RecentLogCount THEN Len(log) - RecentLogCount + 1 ELSE 1
    IN [i \in 1..(Len(log) - first + 1) |->
           LogEntry(log[first + i - 1].speakerId,
                    IF log[first + i - 1].speakerId = DisruptorInfoId THEN << >>
                    ELSE Monologue_short)]

\* the hints of the Capitalizer's model in the generation loop
OrchHints == {HintLead}

OrchNext ==
    \/ EpochEnvConstructed
    \/ EpochRunEpisode
    \/ CostCircuitBreaker
    \/ StepBegin
    \/ \E hint \in OrchHints : CapitalizerInterjection(RecentLogs(actionLogs), hint)
    \/ ProposeRetried(0)
    \/ ProposeExhausted(0)
    \/ PenaltySkipReturns
    \/ ProposeCorrupted
    \/ asked = 1 /\ ProposeFailed
    \/ \E proposal \in OrchProposals, tokens \in OrchTokenChoices :
          asked = 1 /\ ProposeValid(proposal, tokens)
    \/ \E tension \in TensionLevels : TensionObserved(tension)
    \/ InfoObserved
    \/ TurnCompleted
    \/ StepReturned
    \/ EpisodeCorrupted
    \/ StepErrorRethrown
    \/ EpisodeRejected
    \/ CreationMountRaised
    \/ RunEpisodeReturn
    \/ JudgeEvaluate
    \/ EpochCollected
    \/ \E primaryActorId \in PrimaryIds, accepted \in BOOLEAN :
          EvolveReturns(primaryActorId, accepted)
    \/ MutationSucceeded
    \/ NoPlateau
    \/ \E spec \in ProvisionerSpecs : DesignAgent(spec)
    \/ CreationDeclined
    \/ ShadowEnvConstructed
    \/ ShadowMountAgent
    \/ TrialEnvConstructed
    \/ ShadowTrialRunEpisode
    \/ \E trialMeans \in CreationShadowSamples, baseScores \in CreationBaseSamples :
          CreationAccepted(trialMeans, baseScores)
    \/ \E trialMeans \in CreationShadowSamples, baseScores \in CreationBaseSamples :
          CreationRejected(trialMeans, baseScores)
    \/ LiveMountAgent
    \/ LiveRosterUpdated
    \/ ExplorerScanned

OrchSpec == OrchInit /\ [][OrchNext]_vars

(***************************************************************************)
(* Mutator.evolve                                                          *)
(***************************************************************************)
MutationVariants == 3
AcceptanceLcbLambda == 1

\* the target agent's scores of the epoch
BaselineSamples == { <<1, 1, 2, 2>>, <<0, 0, 0, 6>> }
\* the scores of a variant's shadow trials
ShadowSamples == { <<1, 1, 2, 2>>, <<5, 5, 6, 6>>, <<0, 0, 6, 6>>, <<3, 3, 3, 3>> }
\* the scores of a variant's fast-prune trials
FastSamples == { <<1, 1, 1>>, <<2, 2, 2>> }

\* config.acceptance_p_value_threshold: FrameworkConfig declares no such key,
\* so the object FrameworkConfig.parse returns reads undefined (and so does
\* acceptance_lcb_lambda); a configuration object built by hand holds 0.05
PValueThreshold == <<"0.05">>
Thresholds == {Undefined, PValueThreshold}

\* the scores of the trials of all variants of one call
SampleVectors(samples) == UNION {[1..n -> samples] : n \in 0..MutationVariants}

MutInit ==
    /\ EnvConstructed(AgentsKeys, FALSE, FALSE)
    /\ max_active_created_agents = MaxActiveCreatedAgents
    /\ generation = 0
    /\ phase = "none"
    /\ activeAgents = AgentsKeys
    /\ failedArchetypes = << >>
    /\ newAgentSpec = NoSpec
    /\ pendingEvolve = {}
    /\ acceptedActors = {}
    /\ plateauCounter \in 0..1
    /\ noAcceptStreak = 0
    /\ provisioned = << >>
    /\ LimIdle
    /\ AuxIdle
    /\ mutPc = "called"
    /\ acceptance_p_value_threshold \in Thresholds
    /\ baselineScores \in BaselineSamples
    /\ variantCount \in 0..MutationVariants
    /\ survivors = << >>
    /\ shadowScores = << >>
    /\ evolveReturned = 0

\* fastPruneResults.sort((a, b) => b.meanScore - a.meanScore): the place of
\* variant i in the stable descending order
FastPruneRank(fast, i) ==
    1 + Cardinality({j \in 1..Len(fast) : meanExceeds(fast[j], fast[i], 0, 1)})
      + Cardinality({j \in 1..(i - 1) :
                        /\ ~meanExceeds(fast[j], fast[i], 0, 1)
                        /\ ~meanExceeds(fast[i], fast[j], 0, 1)})

\* slice(0, Math.ceil(length / 2)) of the sorted variants
Survivors(fast) ==
    [k \in 1..((Len(fast) + 1) \div 2) |->
        CHOOSE i \in 1..Len(fast) : FastPruneRank(fast, i) = k]

\* Phase B.1: the fast prune keeps the better half of the variants
EvolveFastPrune(fast) ==
    /\ mutPc = "called"
    /\ Len(fast) = variantCount
    /\ survivors' = Survivors(fast)
    /\ mutPc' = "pruned"
    /\ UNCHANGED <<baselineScores, variantCount, shadowScores, evolveReturned,
                   acceptance_p_value_threshold, orchVars, envVars, limVars>>
    /\ UNCHANGED auxVars

\* the loop of Phase B.2 from candidate k on: the place of the first
\* candidate with the highest lower confidence bound, 0 while bestVariant is null
RECURSIVE BestByLCB(_, _, _)
BestByLCB(scores, k, best) ==
    IF k > Len(scores) THEN best
    ELSE BestByLCB(scores, k + 1,
                   IF best = 0 \/ lcbGreater(scores[k], scores[best], AcceptanceLcbLambda)
                   THEN k ELSE best)

ScoresOf(scores, best) == IF best = 0 THEN << >> ELSE scores[best]

\* bestVariant && bestLCB > baselineScore + delta && pValue < threshold: a
\* comparison with undefined is false whatever the p-value is
AcceptanceGate(best, bestShadowScores, baseline, threshold) ==
    /\ best # 0
    /\ lcbExceeds(bestShadowScores, AcceptanceLcbLambda, baseline,
                  ImprovementMarginNum, ImprovementMarginDen)
    /\ threshold # Undefined
    /\ pValueBelowThreshold(bestShadowScores, baseline)

\* Phases B.2 and C: full trials of the survivors, then commitment or archival
EvolveFullTrials(scores) ==
    /\ mutPc = "pruned"
    /\ Len(scores) = Len(survivors)
    /\ LET best == BestByLCB(scores, 1, 0)
           accepted == AcceptanceGate(best, ScoresOf(scores, best), baselineScores,
                                      acceptance_p_value_threshold)
       IN /\ evolveReturned' = IF accepted THEN survivors[best] ELSE 0
          /\ plateauCounter' = PlateauAfter(plateauCounter, accepted)
    /\ shadowScores' = scores
    /\ mutPc' = "returned"
    /\ UNCHANGED <<baselineScores, variantCount, survivors, acceptance_p_value_threshold,
                   generation, phase,
                   activeAgents, failedArchetypes, newAgentSpec, pendingEvolve,
                   acceptedActors, noAcceptStreak, provisioned, envVars, limVars>>
    /\ UNCHANGED auxVars

\* the loop of the mean-based evolve: the place of the first variant with
\* the highest mean
RECURSIVE BestByMean(_, _, _)
BestByMean(scores, k, best) ==
    IF k > Len(scores) THEN best
    ELSE BestByMean(scores, k + 1,
                    IF best = 0 \/ meanExceeds(scores[k], scores[best], 0, 1)
                    THEN k ELSE best)

\* bestVariant && bestScore > baselineScore + delta
MeanGate(best, bestShadowScores, baseline) ==
    /\ best # 0
    /\ meanExceeds(bestShadowScores, baseline, ImprovementMarginNum, ImprovementMarginDen)

\* the evolve that tries every variant and gates on the mean
EvolveMeanBased(scores) ==
    /\ mutPc = "called"
    /\ Len(scores) = variantCount
    /\ LET best == BestByMean(scores, 1, 0)
           accepted == MeanGate(best, ScoresOf(scores, best), baselineScores)
       IN /\ evolveReturned' = IF accepted THEN best ELSE 0
          /\ plateauCounter' = PlateauAfter(plateauCounter, accepted)
    /\ survivors' = [k \in 1..variantCount |-> k]
    /\ shadowScores' = scores
    /\ mutPc' = "returned"
    /\ UNCHANGED <<baselineScores, variantCount, acceptance_p_value_threshold,
                   generation, phase,
                   activeAgents, failedArchetypes, newAgentSpec, pendingEvolve,
                   acceptedActors, noAcceptStreak, provisioned, envVars, limVars>>
    /\ UNCHANGED auxVars

MutNext ==
    \/ \E fast \in SampleVectors(FastSamples) : EvolveFastPrune(fast)
    \/ \E scores \in SampleVectors(ShadowSamples) : EvolveFullTrials(scores)
    \/ \E scores \in SampleVectors(ShadowSamples) : EvolveMeanBased(scores)

MutSpec == MutInit /\ [][MutNext]_vars

(***************************************************************************)
(* The episode fan-out of runFullSimulation under the limiter              *)
(***************************************************************************)
\* the trial batches of one evolve call: one batch per variant, one after the
\* other (part_008); or the fast prune with the batches of all variants at
\* once, then one batch per survivor (agents/mutator.ts)
BatchPlans ==
    { [i \in 1..MutationVariants |-> ShadowTrialCount],
      <<MutationVariants * ShadowTrialCount>>
          \o [i \in 1..((MutationVariants + 1) \div 2) |-> ShadowTrialCount] }

LimInit ==
    /\ EnvConstructed(AgentsKeys, FALSE, FALSE)
    /\ max_active_created_agents = MaxActiveCreatedAgents
    /\ generation = 0
    /\ phase = "start"
    /\ activeAgents = AgentsKeys
    /\ failedArchetypes = << >>
    /\ newAgentSpec = NoSpec
    /\ pendingEvolve = {}
    /\ acceptedActors = {}
    /\ plateauCounter = 0
    /\ noAcceptStreak = 0
    /\ provisioned = << >>
    /\ MutIdle
    /\ LimIdle
    /\ AuxIdle

\* const limit = pLimit(config.max_concurrency ?? 5) and the epoch fan-out
EpochFanOut ==
    /\ phase = "start"
    /\ limQueue' = Submitted("epoch", EpochSize)
    /\ phase' = "epoch"
    /\ UNCHANGED <<limRunning, evolveBatches, generation, activeAgents, failedArchetypes,
                   newAgentSpec, pendingEvolve, acceptedActors, plateauCounter,
                   noAcceptStreak, provisioned, mutVars, envVars>>
    /\ UNCHANGED auxVars

\* the limiter starts its next task while activeCount < concurrency
LimitStart(l) ==
    /\ limQueue[l] # << >>
    /\ ActiveCount(l) < MaxConcurrency
    /\ limRunning' = [limRunning EXCEPT ![Head(limQueue[l])] = @ + 1]
    /\ limQueue' = [limQueue EXCEPT ![l] = Tail(@)]
    /\ UNCHANGED <<evolveBatches, orchVars, mutVars, envVars>>
    /\ UNCHANGED auxVars

\* an episode worker returns: its promise settles and the limiter counts it out
EpisodeDone(owner) ==
    /\ limRunning[owner] > 0
    /\ limRunning' = [limRunning EXCEPT ![owner] = @ - 1]
    /\ UNCHANGED <<limQueue, evolveBatches, orchVars, mutVars, envVars>>
    /\ UNCHANGED auxVars

\* await Promise.all(episodePromises); the evolve calls of the primary actors
\* start, all on the one Mutator
EpochAwaited(plan) ==
    /\ phase = "epoch"
    /\ Outstanding("epoch") = 0
    /\ phase' = "mutation"
    /\ pendingEvolve' = PrimaryIds
    /\ acceptedActors' = {}
    /\ evolveBatches' = [a \in PrimaryIds |-> plan]
    /\ UNCHANGED <<limQueue, limRunning, generation, activeAgents, failedArchetypes,
                   newAgentSpec, plateauCounter, noAcceptStreak,
                   provisioned, mutVars, envVars>>
    /\ evolved' = NoEvolved
    /\ UNCHANGED <<configVars, creationVars, sweepVars, agentObjects, cloneVars, capVars,
                   noteVars>>

\* an evolve call hands its next batch of shadow trials to runShadowTrial
RunShadowTrial(primaryActorId) ==
    /\ phase = "mutation"
    /\ primaryActorId \in pendingEvolve
    /\ Outstanding(primaryActorId) = 0
    /\ evolveBatches[primaryActorId] # << >>
    /\ limQueue' = Submitted(primaryActorId, Head(evolveBatches[primaryActorId]))
    /\ evolveBatches' = [evolveBatches EXCEPT ![primaryActorId] = Tail(@)]
    /\ UNCHANGED <<limRunning, orchVars, mutVars, envVars>>
    /\ UNCHANGED auxVars

\* the shadow test of a creation: after shadowEnv.mountAgent the trials are
\* handed to the limiter
CreationFanOut ==
    /\ phase = "shadow_mount"
    /\ mountResult = "mounted"
    /\ limQueue' = Submitted("creation", shadow_trial_count)
    /\ phase' = "creation_trial"
    /\ UNCHANGED <<limRunning, evolveBatches, generation, activeAgents, failedArchetypes,
                   newAgentSpec, pendingEvolve, acceptedActors, plateauCounter,
                   noAcceptStreak, provisioned, mutVars, envVars>>
    /\ UNCHANGED auxVars

\* await Promise.all(shadowTrialPromises), then the gate
CreationAwaited(trialMeans, baseScores) ==
    /\ phase = "creation_trial"
    /\ Outstanding("creation") = 0
    /\ Len(trialMeans) = shadow_trial_count
    /\ GatePassed(trialMeans, baseScores) \/ GateFailed(trialMeans, baseScores)

LimNext ==
    \/ EpochFanOut
    \/ \E l \in Limiters : LimitStart(l)
    \/ \E owner \in Owners : EpisodeDone(owner)
    \/ \E plan \in BatchPlans : EpochAwaited(plan)
    \/ \E primaryActorId \in PrimaryIds : RunShadowTrial(primaryActorId)
    \/ \E primaryActorId \in PrimaryIds, accepted \in BOOLEAN :
          EvolveReturns(primaryActorId, accepted)
    \/ MutationSucceeded
    \/ NoPlateau
    \/ \E spec \in ProvisionerSpecs : DesignAgent(spec)
    \/ CreationDeclined
    \/ ShadowEnvConstructed
    \/ ShadowMountAgent
    \/ CreationFanOut
    \/ \E trialMeans \in CreationShadowSamples, baseScores \in CreationBaseSamples :
          CreationAwaited(trialMeans, baseScores)
    \/ LiveMountAgent
    \/ LiveRosterUpdated

\* the limiter starts a waiting task in its next microtask, every episode
\* returns, every awaited call (evolve, designAgent, the approval callback,
\* mountAgent) returns, and every continuation of the orchestrator runs once
\* its promise is settled
LimSpec ==
    /\ LimInit
    /\ [][LimNext]_vars
    /\ \A l \in Limiters : WF_vars(LimitStart(l))
    /\ \A owner \in Owners : WF_vars(EpisodeDone(owner))
    /\ WF_vars(EpochFanOut)
    /\ WF_vars(\E plan \in BatchPlans : EpochAwaited(plan))
    /\ \A primaryActorId \in PrimaryIds :
          /\ WF_vars(RunShadowTrial(primaryActorId))
          /\ WF_vars(\E accepted \in BOOLEAN : EvolveReturns(primaryActorId, accepted))
    /\ WF_vars(MutationSucceeded \/ NoPlateau
                  \/ \E spec \in ProvisionerSpecs : DesignAgent(spec))
    /\ WF_vars(CreationDeclined \/ ShadowEnvConstructed)
    /\ WF_vars(ShadowMountAgent \/ LiveMountAgent)
    /\ WF_vars(CreationFanOut)
    /\ WF_vars(\E trialMeans \in CreationShadowSamples, baseScores \in CreationBaseSamples :
                  CreationAwaited(trialMeans, baseScores))
    /\ WF_vars(LiveRosterUpdated)

(***************************************************************************)
(* Episodes on Environments built one after the other from one initial     *)
(* state                                                                   *)
(***************************************************************************)
\* an object value stored under s, a write below it, another write, and the
\* proposals that end an episode
CloneProposals ==
    { Prop(<<MO_add_s>>, FALSE, FALSE), Prop(<<M_mod_sy>>, FALSE, FALSE),
      Prop(<<M_add_cy>>, FALSE, FALSE), Prop(<<MO_add_s, M_mod_sy>>, TRUE, FALSE),
      Prop(<<M_add_proto_sy>>, FALSE, FALSE), Prop(<< >>, TRUE, FALSE) }

\* the caller keeps the final state of the episode and builds the next
\* Environment from the same initial state, with the same turn order
NextEnvironment ==
    /\ pc = "returned"
    /\ environmentsBuilt < MaxEnvironments
    /\ environmentsBuilt' = environmentsBuilt + 1
    /\ returnedStates' = Append(returnedStates, OwnProperties(variables))
    /\ valueAliasedAt' = << >>
    /\ NewEnvironmentManager(turnOrder, "idle")
    /\ UNCHANGED <<orchVars, mutVars, limVars, configVars, creationVars, sweepVars,
                   rosterVars, initialState, valueObject, objectPrototype,
                   noteVars>>

CloneInit == Init

CloneNext ==
    \/ RunEpisodeStart(AllIds)
    \/ StepBegin
    \/ \E proposal \in CloneProposals : ProposeValid(proposal, 1)
    \/ \E tension \in TensionLevels : TensionObserved(tension)
    \/ InfoObserved
    \/ TurnCompleted
    \/ StepReturned
    \/ RunEpisodeReturn
    \/ NextEnvironment

CloneSpec == CloneInit /\ [][CloneNext]_vars

(***************************************************************************)
(* The retry context of ActorAgent in the episodes of an epoch: the         *)
(* episodes run at the same time with the same ActorAgent objects, and an   *)
(* episode is interleaved with the others at every await                   *)
(***************************************************************************)
\* ActorAgent.proposeAction up to its await: the pending note goes into the
\* prompt and is cleared
proposeAction(context, id) ==
    [included |-> context[id], context |-> [context EXCEPT ![id] = NoNote]]

\* ActorAgent.appendRetryContext
appendRetryContext(context, id, note) == [context EXCEPT ![id] = note]

\* turnOrder[turn_number % turnOrder.length] of an episode of the epoch
SpeakerOf(e) == AgentsKeys[(running[e].turn_number % Len(AgentsKeys)) + 1]

\* the position of runEpisode after a step that returned at the given turn
AfterStep(turn) == IF turn < MaxTurnsPerEpisode THEN "loop" ELSE "returned"

\* the epoch: every episode resets its state and enters its loop
NoteInit ==
    /\ EnvConstructed(AgentsKeys, FALSE, FALSE)
    /\ max_active_created_agents = MaxActiveCreatedAgents
    /\ OrchIdle
    /\ MutIdle
    /\ LimIdle
    /\ ConfigDefault
    /\ approvalAnswer = "none"
    /\ lastCreationAttempt = -1
    /\ gateScores = NoScores
    /\ scout_hypotheses = -1
    /\ agentObjects = InitialAgents
    /\ evolved = NoEvolved
    /\ CloneIdle
    /\ CapIdle
    /\ retryContext = [id \in PrimaryIds |-> NoNote]
    /\ running = [e \in Episodes |-> EpisodeAt("loop")]
    /\ lastCall = NoCall

\* the cost circuit breaker of episode e, at the top of the loop body
NoteCircuitBreaker(e) ==
    /\ running[e].pc = "loop"
    /\ running[e].tokenUsage > MaxEpisodeTokens
    /\ running' = [running EXCEPT ![e].pc = "returned",
                                  ![e].terminationReason = "token_limit"]
    /\ UNCHANGED <<retryContext, lastCall>>
    /\ UNCHANGED <<envVars, orchVars, mutVars, limVars, configVars, creationVars,
                   sweepVars, rosterVars, cloneVars, capVars>>

\* step of episode e, up to the await of the first proposeAction call
StepFirstAttempt(e) ==
    /\ running[e].pc = "loop"
    /\ ~(running[e].tokenUsage > MaxEpisodeTokens)
    /\ LET called == proposeAction(retryContext, SpeakerOf(e))
       IN /\ retryContext' = called.context
          /\ lastCall' = [episode |-> e, speakerId |-> SpeakerOf(e),
                          turn |-> running[e].turn_number, attempt |-> 0,
                          note |-> called.included]
    /\ running' = [running EXCEPT ![e].pc = "awaiting", ![e].retries = 0,
                                  ![e].turnTokenUsage = 0]
    /\ UNCHANGED <<envVars, orchVars, mutVars, limVars, configVars, creationVars,
                   sweepVars, rosterVars, cloneVars, capVars>>

\* the pending call of episode e fails validation and the retry budget is
\* not used up: the catch block stores the note and the loop calls
\* proposeAction again, all before the next await; tokens: what the failed
\* call cost, 0 when proposeAction itself raised the error
StepRetry(e, tokens) ==
    /\ running[e].pc = "awaiting"
    /\ RetryBudgetLeft(running[e].retries + 1)
    /\ LET stored == appendRetryContext(retryContext, SpeakerOf(e),
                                        Note(e, running[e].turn_number))
           called == proposeAction(stored, SpeakerOf(e))
       IN /\ retryContext' = called.context
          /\ lastCall' = [episode |-> e, speakerId |-> SpeakerOf(e),
                          turn |-> running[e].turn_number,
                          attempt |-> running[e].retries + 1,
                          note |-> called.included]
    /\ running' = [running EXCEPT ![e].retries = @ + 1,
                                  ![e].turnTokenUsage = @ + tokens]
    /\ UNCHANGED <<envVars, orchVars, mutVars, limVars, configVars, creationVars,
                   sweepVars, rosterVars, cloneVars, capVars>>

\* the flags of the proposals the actors make in the epoch
NoteProposals ==
    { Prop(<< >>, FALSE, FALSE), Prop(<< >>, TRUE, FALSE), Prop(<< >>, FALSE, TRUE) }

\* the pending call of episode e returns a proposal that parses: the
\* termination conditions are checked, the turn completes, step returns
\* turnTokenUsage and runEpisode adds it to tokenUsage; the loop of runEpisode
\* ends when the proposal aborts the episode or is the second of two
\* proposals in a row that propose the resolution
StepProposalParsed(e, proposal, tokens) ==
    /\ running[e].pc = "awaiting"
    /\ running' =
         [running EXCEPT
            ![e] = [@ EXCEPT !.pc = IF TerminalAfter(proposal,
                                                    running[e].lastProposalWasFinal)
                                    THEN "returned"
                                    ELSE AfterStep(running[e].turn_number + 1),
                             !.turn_number = @ + 1,
                             !.retries = 0,
                             !.tokenUsage = @ + running[e].turnTokenUsage + tokens,
                             !.turnTokenUsage = 0,
                             !.terminationReason =
                                 ReasonAfter(proposal, running[e].lastProposalWasFinal, @),
                             !.lastProposalWasFinal = proposal.propose_resolution]]
    /\ UNCHANGED <<retryContext, lastCall>>
    /\ UNCHANGED <<envVars, orchVars, mutVars, limVars, configVars, creationVars,
                   sweepVars, rosterVars, cloneVars, capVars>>

\* the pending call of episode e fails validation and uses up the retry
\* budget: the catch block stores the note and the loop ends. The step
\* corrupts the episode, whose tokenUsage does not get the tokens of the
\* step, or is a penalized skip that returns turnTokenUsage
StepBudgetExhausted(e, tokens) ==
    /\ running[e].pc = "awaiting"
    /\ ~RetryBudgetLeft(running[e].retries + 1)
    /\ retryContext' = appendRetryContext(retryContext, SpeakerOf(e),
                                          Note(e, running[e].turn_number))
    /\ running' =
         [running EXCEPT
            ![e] = IF ThresholdReached(running[e].penaltyCount[SpeakerOf(e)] + 1)
                   THEN [@ EXCEPT !.pc = "returned", !.retries = 0,
                                  !.penaltyCount[SpeakerOf(e)] = @ + 1,
                                  !.turnTokenUsage = 0,
                                  !.terminationReason = "corrupted"]
                   ELSE [@ EXCEPT !.pc = AfterStep(running[e].turn_number + 1),
                                  !.turn_number = @ + 1, !.retries = 0,
                                  !.penaltyCount[SpeakerOf(e)] = @ + 1,
                                  !.tokenUsage = @ + running[e].turnTokenUsage + tokens,
                                  !.turnTokenUsage = 0]]
    /\ UNCHANGED lastCall
    /\ UNCHANGED <<envVars, orchVars, mutVars, limVars, configVars, creationVars,
                   sweepVars, rosterVars, cloneVars, capVars>>

NoteNext ==
    \/ \E e \in Episodes : NoteCircuitBreaker(e)
    \/ \E e \in Episodes : StepFirstAttempt(e)
    \/ \E e \in Episodes, tokens \in SkipTokenChoices : StepRetry(e, tokens)
    \/ \E e \in Episodes, proposal \in NoteProposals, tokens \in TokenChoices :
          StepProposalParsed(e, proposal, tokens)
    \/ \E e \in Episodes, tokens \in SkipTokenChoices : StepBudgetExhausted(e, tokens)

NoteSpec == NoteInit /\ [][NoteNext]_vars

(***************************************************************************)
(* Properties of the Environment                                           *)
(***************************************************************************)
EmittedBy(name) == {emitted[i].speakerId : i \in {j \in 1..Len(emitted) : emitted[j].name = name}}

\* the step in flight, or the last one, has emitted turn:complete / turn:penalty
ValidTurnDone == EmittedBy("turn:complete") # {}
PenalizedSkipDone == EmittedBy("turn:penalty") \ {SummarizerId} # {}

\* C1: within an episode turn_number never decreases; a call of step leaves
\* it alone until the call returns, and every call that returns, after a valid
\* turn or after a penalized skip, has raised it by exactly 1
C1_TurnNumberAdvances ==
    [][ /\ pc \in {"loop", "step"} => turn_number' >= turn_number
        /\ (stepPc # "returned" /\ stepPc' = "returned") => turn_number' = turn_number + 1
        /\ (pc \in {"loop", "step"} /\ ~(stepPc # "returned" /\ stepPc' = "returned"))
              => turn_number' = turn_number ]_vars

\* a penalized skip and a valid turn have returned
C1_Witness ==
    /\ pc = "loop"
    /\ turn_number = 2
    /\ penaltyCount["agent_a"] = 1
    /\ Len(appendedLog) >= 1
    /\ lastResponses = <<"valid">>

ResolutionTurn(log, t) ==
    \E i \in 1..Len(log) :
        /\ log[i].speakerId # DisruptorInfoId
        /\ log[i].turn = t
        /\ log[i].propose_resolution

\* C2: an episode ends with reason agreement only if two consecutive turns,
\* t and t+1, both carried propose_resolution=true
C2_AgreementOnlyByConsecutiveTurns ==
    terminationReason = "agreement" =>
        \E t \in 0..MaxTurnsPerEpisode :
            ResolutionTurn(appendedLog, t) /\ ResolutionTurn(appendedLog, t + 1)

\* the admissibility of a path as the permissions record states it
HasPrefixIn(path, prefixes) == \E i \in 1..Len(prefixes) : StartsWith(path, prefixes[i])
Admissible(agentId, path) ==
    \/ agentId \notin DOMAIN agentPermissions
    \/ /\ HasPrefixIn(path, agentPermissions[agentId].can_modify_fields)
       /\ ~HasPrefixIn(path, agentPermissions[agentId].cannot_modify_fields)

\* C3: every mutation applied to variables was proposed by a speaker without
\* a permissions record or with a record that admits the path (an allowed
\* prefix and no denied prefix); variables change in no other way than by a
\* completed valid turn
C3_AppliedMutationsPermitted ==
    /\ \A i \in 1..Len(appendedLog) :
          \A j \in 1..Len(appendedLog[i].state_mutations) :
             Admissible(appendedLog[i].speakerId, appendedLog[i].state_mutations[j].path)
    /\ (variables # InitialVariables => appendedLog # << >>)

C3_Witness ==
    \E i \in 1..Len(appendedLog) :
        /\ appendedLog[i].speakerId \in DOMAIN agentPermissions
        /\ appendedLog[i].state_mutations # << >>
        /\ << <<"s">> >> \in DOMAIN variables

\* C4: the number of created agents registered on the Environment never
\* exceeds max_active_created_agents
C4_CreatedAgentsWithinCap == Cardinality(createdAgentIds) <= MaxActiveCreatedAgents

\* C5: no registered permissions record has can_abort_episode=true,
\* can_propose_resolution=true or max_state_mutations_per_turn above 3
C5_MountedSpecsAreSafe ==
    \A id \in DOMAIN agentPermissions :
        /\ ~agentPermissions[id].can_abort_episode
        /\ ~agentPermissions[id].can_propose_resolution
        /\ agentPermissions[id].max_state_mutations_per_turn <= 3

\* C6: the transcript handed to the Critic contains every entry appended to
\* the action log during the episode
C6_CriticGetsFullLog == pc = "evaluated" => criticTranscript = appendedLog

\* C8: a turn of a mounted agent registered with can_abort_episode=false and
\* can_propose_resolution=false never makes the episode terminal, and no turn
\* of a mounted agent applies more than max_state_mutations_per_turn mutations
C8_PermissionsRecordEnforced ==
    /\ \A i \in 1..Len(appendedLog) :
          LET e == appendedLog[i]
          IN e.speakerId \in DOMAIN agentPermissions =>
                Len(e.state_mutations) <=
                    agentPermissions[e.speakerId].max_state_mutations_per_turn
    /\ (/\ terminationReason \in {"abort_episode", "agreement"}
        /\ current_speaker_id \in DOMAIN agentPermissions)
          => \/ agentPermissions[current_speaker_id].can_abort_episode
             \/ agentPermissions[current_speaker_id].can_propose_resolution

(***************************************************************************)
(* Properties of the generation loop                                       *)
(***************************************************************************)
\* the speaker is an agent the Provisioner designed: the agent under shadow
\* test, or the actor mountAgent built that stands under the id in the live
\* roster
CreatedSpeaker(speakerId) ==
    /\ speakerId \in DOMAIN provisioned
    /\ \/ speakerId \notin PrimaryIds
       \/ phase = "creation_trial" /\ newAgentSpec.agent_id = speakerId
       \/ agentObjects[speakerId].immutableCore = "system_prompt"

\* C7: whenever an agent the Provisioner designed takes a turn, the
\* Environment that runs the episode holds its permissions record, and every
\* mutation of that turn is on a path the agent's permissions admit
C7_CreatedAgentTurnsRestricted ==
    \A i \in 1..Len(appendedLog) :
        LET e == appendedLog[i]
        IN CreatedSpeaker(e.speakerId) =>
              /\ e.speakerId \in DOMAIN agentPermissions
              /\ \A j \in 1..Len(e.state_mutations) :
                    /\ HasPrefixIn(e.state_mutations[j].path,
                                   provisioned[e.speakerId].can_modify_fields)
                    /\ ~HasPrefixIn(e.state_mutations[j].path,
                                    provisioned[e.speakerId].cannot_modify_fields)

\* C9: once a generation's mutation phase is over, the plateau counter is
\* the number of generations in a row, up to that one, in which no actor's
\* mutation was accepted
C9_PlateauCountsGenerations ==
    phase \notin {"none", "mutation"} => plateauCounter = noAcceptStreak

\* C10: evolve returns a variant only if the lower confidence bound of that
\* variant's shadow scores exceeds the baseline mean plus improvement_margin
\* and the Mann-Whitney p-value of those scores against the baseline scores
\* is below acceptance_p_value_threshold; it returns null otherwise, also
\* when no variant survives
C10_EvolveReturnsOnlyGatedVariant ==
    /\ evolveReturned # 0 =>
          /\ mutPc = "returned"
          /\ acceptance_p_value_threshold # Undefined
          /\ \E k \in 1..Len(survivors) :
                /\ survivors[k] = evolveReturned
                /\ lcbExceeds(shadowScores[k], AcceptanceLcbLambda, baselineScores,
                              ImprovementMarginNum, ImprovementMarginDen)
                /\ pValueBelowThreshold(shadowScores[k], baselineScores)
    /\ (mutPc = "returned" /\ survivors = << >>) => evolveReturned = 0

(***************************************************************************)
(* Properties of runEpisode                                                *)
(***************************************************************************)
\* the valid turns of the episode: the entries of the actors
ValidTurns(log) == Cardinality({i \in 1..Len(log) : log[i].speakerId # DisruptorInfoId})

\* the steps of the episode whose retries were all used up
PenaltyTotal ==
    Cardinality({p \in (PrimaryIds \cup CreatedIdPool) \X (1..ForcedConcessionThreshold) :
                    p[2] <= penaltyCount[p[1]]})

\* those of them that ended as a penalized skip: the step that corrupts the
\* episode raises instead
PenalizedSkips == PenaltyTotal - (IF terminationReason = "corrupted" THEN 1 ELSE 0)

\* the steps that returned
StepsReturned == ValidTurns(appendedLog) + PenalizedSkips

SpeakerHasEntry(log, id) == \E i \in 1..Len(log) : log[i].speakerId = id

\* C12: when a speaker whose proposals always fail validation reaches the
\* forced concession threshold, runEpisode does not raise, the episode is
\* terminal with reason corrupted, and the final turn_number is the number of
\* penalized skips of the episode
C12_CorruptedTurnNumberIsSkips ==
    (terminationReason = "corrupted" /\ ~SpeakerHasEntry(appendedLog, current_speaker_id))
        => /\ is_terminal
           /\ pc \in {"loop", "returned", "evaluated"}
           /\ turn_number = PenalizedSkips

\* C12 as amended: outside a call of step the episode has reason corrupted
\* exactly when a speaker's penalty count has reached the threshold;
\* runEpisode then does not raise, the episode is terminal, and turn_number
\* is the number of steps that returned, penalized skips and valid turns
\* together
C12_CorruptedEndsEpisode ==
    /\ pc # "step" =>
          ((terminationReason = "corrupted") <=>
              (\E id \in PrimaryIds \cup CreatedIdPool :
                  penaltyCount[id] >= ForcedConcessionThreshold))
    /\ terminationReason = "corrupted"
          => /\ is_terminal
             /\ pc \in {"loop", "returned", "evaluated"}
             /\ turn_number = StepsReturned

C12_Witness ==
    /\ terminationReason = "corrupted"
    /\ pc = "returned"
    /\ ~SpeakerHasEntry(appendedLog, current_speaker_id)
    /\ ValidTurns(appendedLog) = 1
    /\ turn_number = 2

\* C13: the Critic is not asked to evaluate an episode that ended with
\* reason corrupted
C13_CorruptedBypassesCritic == pc = "evaluated" => terminationReason # "corrupted"

\* the loop body of runEpisode calls step
StepStarted == pc = "loop" /\ pc' = "step"

\* C14: no step starts while the token usage of the steps taken exceeds
\* max_episode_tokens; an episode that returns with the usage above the limit
\* and the turn cap not reached is terminal with reason token_limit, and its
\* turn_number is the number of steps taken
C14_TokenLimitEndsEpisode ==
    [][ /\ StepStarted => tokenUsage <= MaxEpisodeTokens
        /\ (pc' = "returned" /\ tokenUsage' > MaxEpisodeTokens
                /\ turn_number' < MaxTurnsPerEpisode)
             => /\ is_terminal'
                /\ terminationReason' = "token_limit"
                /\ turn_number' = StepsReturned' ]_vars

\* C14 as amended: the same, for an episode that the last step did not end
\* itself by an abort or by completing an agreement
C14_TokenLimitUnlessEnded ==
    [][ /\ StepStarted => tokenUsage <= MaxEpisodeTokens
        /\ (pc' = "returned" /\ tokenUsage' > MaxEpisodeTokens
                /\ turn_number' < MaxTurnsPerEpisode
                /\ terminationReason' \notin {"abort_episode", "agreement"})
             => /\ is_terminal'
                /\ terminationReason' = "token_limit"
                /\ turn_number' = StepsReturned' ]_vars

C14_Witness ==
    /\ pc = "returned"
    /\ terminationReason = "token_limit"
    /\ tokenUsage > MaxEpisodeTokens
    /\ turn_number = 2
    /\ StepsReturned = 2

\* C15: turn_number never exceeds max_turns_per_episode and counts the steps
\* that returned, so a runEpisode call takes at most that many; an episode
\* that returns without an abort, an agreement, a corruption or a token-limit
\* stop has turn_number = max_turns_per_episode and reason timeout
C15_EpisodeBoundedByMaxTurns ==
    /\ turn_number <= MaxTurnsPerEpisode
    /\ pc \in {"loop", "returned", "evaluated", "raised"} => turn_number = StepsReturned
    /\ pc \in {"returned", "evaluated"} =>
          \/ terminationReason \in {"abort_episode", "agreement", "corrupted", "token_limit"}
          \/ /\ terminationReason = "timeout"
             /\ turn_number = MaxTurnsPerEpisode

C15_Witness ==
    /\ pc = "returned"
    /\ terminationReason = "timeout"
    /\ turn_number = MaxTurnsPerEpisode
    /\ PenalizedSkips = 1

\* C16: once is_terminal is true in an episode it stays true until runEpisode
\* has returned, and the loop calls step no more: from the loop nothing is
\* left but the return (no turn, no penalty, no token usage, no log entry, no
\* mutation)
C16_TerminalIsAbsorbing ==
    [][ /\ (pc \in {"loop", "step"} /\ is_terminal) => (is_terminal' /\ ~StepStarted)
        /\ (pc = "loop" /\ is_terminal)
              => /\ turn_number' = turn_number
                 /\ penaltyCount' = penaltyCount
                 /\ tokenUsage' = tokenUsage
                 /\ appendedLog' = appendedLog
                 /\ variables' = variables
                 /\ pc' \in {"loop", "returned"} ]_vars

C16_Witness ==
    /\ pc = "returned"
    /\ is_terminal
    /\ terminationReason = "abort_episode"
    /\ turn_number < MaxTurnsPerEpisode

\* the entry of the actor in the last turn of the log
LastActorEntry(log) ==
    log[CHOOSE i \in 1..Len(log) :
            /\ log[i].speakerId # DisruptorInfoId
            /\ \A j \in (i + 1)..Len(log) : log[j].speakerId = DisruptorInfoId]

\* C17: a valid turn whose proposal has abort_episode=true makes the episode
\* terminal with reason abort_episode when the proposal is applied, and the
\* episode is so for the rest of the step, whatever the propose_resolution
\* flags of this turn and of the turn before
C17_AbortTakesPrecedence ==
    [][ /\ (stepPc = "proposeAction" /\ ValidTurnDone' /\ proposed'.abort_episode)
              => /\ is_terminal'
                 /\ terminationReason' = "abort_episode"
        /\ (stepPc \in {"tension", "info", "complete", "returned"}
                /\ proposed.abort_episode)
              => /\ is_terminal /\ is_terminal'
                 /\ terminationReason = "abort_episode"
                 /\ terminationReason' = "abort_episode" ]_vars

C17_Witness ==
    /\ terminationReason = "abort_episode"
    /\ Len(appendedLog) >= 2
    /\ LastActorEntry(appendedLog).propose_resolution
    /\ LastActorEntry(appendedLog).abort_episode
    /\ \E i \in 1..Len(appendedLog) :
          /\ appendedLog[i].turn = LastActorEntry(appendedLog).turn - 1
          /\ appendedLog[i].speakerId # DisruptorInfoId
          /\ appendedLog[i].propose_resolution

\* C18: in one step proposeAction is called at most max_validation_retries
\* times, a further call follows only an answer that failed validation, and
\* any other error leaves step and runEpisode at once: no call follows it,
\* the penalty counts and turn_number are as before the step, and runEpisode
\* does not return
C18_OnlyValidationFailuresRetried ==
    [][ /\ asked' <= MaxValidationRetries
        /\ \A i \in 1..(asked' - 1) : lastResponses'[i] = "invalid"
        /\ stepPc' = "proposeAction"
              => /\ penaltyCount' = penaltyCount
                 /\ turn_number' = turn_number
        /\ (stepPc = "proposeAction" /\ raised' = "Error")
              => /\ lastResponses'[asked'] = "error"
                 /\ asked' = asked
                 /\ stepPc' = "threw"
                 /\ penaltyCount' = penaltyCount
                 /\ turn_number' = turn_number
        /\ (pc = "step" /\ stepPc = "threw" /\ raised = "Error")
              => /\ pc' = "raised"
                 /\ penaltyCount' = penaltyCount
                 /\ turn_number' = turn_number
        /\ pc = "raised" => pc' \in {"raised", "rejected"}
        /\ pc = "rejected" => pc' = "rejected" ]_vars

C18_Witness ==
    /\ pc = "rejected"
    /\ raised = "Error"
    /\ asked = MaxValidationRetries
    /\ lastResponses[asked] = "error"
    /\ turn_number = 1
    /\ PenaltyTotal = 1

\* C19: a permission violation raised by a step does not reject the episode
\* worker of the orchestrator: the episode is handled as a corrupted run, so
\* that the other episodes and the generation loop go on
C19_PermissionViolationIsCorruptedRun ==
    raised = "PermissionViolationError" => pc # "rejected"

\* C20: when mounting the provisioned agent raises MaxAgentsExceeded in the
\* creation phase, the orchestrator records the spec in failedArchetypes,
\* leaves the roster as it is and goes to the next generation
C20_MountFailureArchivesArchetype ==
    [][ (phase = "shadow_mount" /\ mountResult = "MaxAgentsExceeded")
          => /\ phase' \in {"sweep", "start", "done"}
             /\ \E i \in 1..Len(failedArchetypes') :
                   failedArchetypes'[i] = newAgentSpec.archetype
             /\ activeAgents' = activeAgents ]_vars

(***************************************************************************)
(* Properties of the fan-out                                               *)
(***************************************************************************)
\* the episodes in flight: epoch episodes, mutation shadow trials of every
\* actor and creation shadow trials together
InFlight ==
    Cardinality({p \in Owners \X (1..(2 * MaxConcurrency + 2)) : p[2] <= limRunning[p[1]]})

\* C11: at every moment the episodes in flight, of the epoch, of the shadow
\* trials of every actor and of the creation together, are at most
\* max_concurrency; every task that waits in the limiter is started, and the
\* generation loop runs to its end
C11_FanOutBoundedAndLive ==
    /\ [](InFlight <= MaxConcurrency)
    /\ \A owner \in Owners : (Queued(owner) > 0) ~> (Queued(owner) = 0)
    /\ <>(phase = "done")

C11_Witness ==
    /\ InFlight = MaxConcurrency
    /\ limRunning["agent_a"] > 0
    /\ limRunning["agent_b"] > 0
    /\ Queued("agent_b") > 0
    /\ evolveBatches["agent_a"] # << >>


(***************************************************************************)
(* Properties of mounting, creation and the generation loop                *)
(***************************************************************************)
\* C23: after every successful mountAgent the id of the agent just mounted
\* occurs in turnOrder, so the mounted agent gets turns
C23_MountedAgentIsInTurnOrder ==
    mountResult = "mounted" =>
        \A id \in EmittedBy("agent:created") :
            \E i \in 1..Len(turnOrder) : turnOrder[i] = id

\* C28: when the episodes of a generation's epoch all ended with reason
\* agreement, collecting the epoch starts no Mutator.evolve call (and with it
\* no shadow trial and no creation attempt) for that generation
C28_AllAgreedShortCircuits ==
    [][(phase = "epoch" /\ pc = "evaluated" /\ terminationReason = "agreement")
        => (phase' # "mutation" /\ pendingEvolve' = {})]_vars

\* the positions of the loop body inside the creation phase
CreationPhases == {"approval", "shadow_mount", "creation_trial", "live_mount"}

\* C24: once a primary actor's mutation is accepted in a generation, the
\* loop is never in the creation phase of that generation: no spec is
\* designed and no agent is mounted, whatever the plateau counter says
C24_AcceptedMutationSkipsCreation ==
    acceptedActors # {} =>
        /\ phase \notin CreationPhases
        /\ createdAgentIds = {}
        /\ mountResult = "none"

\* an accepted mutation with the Mutator plateaued, and the loop went on to
\* the next generation
C24_Witness ==
    /\ phase = "epoch"
    /\ generation > 0
    /\ acceptedActors # {}
    /\ isPlateaued(plateauCounter, creation_patience)

\* C25: with require_human_approval_for_creation true, the provisioned
\* agent is shadow-tested or added to the live roster only after the approval
\* callback returned true for its spec; without a callback, or when it
\* returned false, the roster is left unchanged in that generation
C25_CreationNeedsApproval ==
    [][require_human_approval_for_creation =>
          /\ (phase' \in {"shadow_mount", "creation_trial", "live_mount"}
                => approvalAnswer' = "true")
          /\ ((activeAgents' # activeAgents
                \/ (phase = "live_mount" /\ agentObjects' # agentObjects))
                => approvalAnswer = "true")]_vars

\* approval was required, the callback returned true for the spec, and the
\* agent reached the live roster
C25_Witness ==
    /\ require_human_approval_for_creation
    /\ approvalAnswer = "true"
    /\ newAgentSpec # NoSpec
    /\ activeAgents # AgentsKeys

\* C27: a generation that runs with an Explorer wired and
\* generation mod scout_sweep_interval_generations = 0 does not end before the
\* scan ran and scout_hypotheses of the initial state was overwritten, also
\* when a mutation was accepted or a creation was declined
C27_SweepInEveryDueGeneration ==
    [][(generation' = generation + 1
          /\ SweepDue(explorer, generation, scout_sweep_interval_generations))
        => scout_hypotheses' = generation]_vars

\* C26: a provisioned agent is added to the live roster only if its shadow
\* scores pass the gate of a mutation: lower confidence bound above the
\* baseline mean plus improvement_margin, and Mann-Whitney p-value below the
\* acceptance threshold
C26_CreationGateIsMutationGate ==
    [][(activeAgents' # activeAgents
          \/ (phase = "live_mount" /\ agentObjects' # agentObjects)) =>
          /\ lcbExceeds(gateScores.shadow, AcceptanceLcbLambda, gateScores.base,
                        ImprovementMarginNum, ImprovementMarginDen)
          /\ pValueBelowThreshold(gateScores.shadow, gateScores.base)]_vars

\* C22: in every generation, after any number of accepted mutations, every
\* primary actor of the live roster has the id and the immutable core it
\* started with, and so has every variant an evolve call returned
C22_PrimaryActorsKeepIdAndCore ==
    \A id \in PrimaryIds :
        /\ agentObjects[id].id = id
        /\ agentObjects[id].immutableCore = InitialCores[id]
        /\ evolved[id] # NoAgent =>
              /\ evolved[id].id = id
              /\ evolved[id].immutableCore = InitialCores[id]

\* C29: the live roster is written only when no episode or shadow trial is
\* in flight or waiting and no evolve call is pending: the epoch's episodes
\* are all finished before an evolve call starts, and no variant or mounted
\* agent reaches the roster before every evolve call of the generation has
\* returned
C29_RosterWrittenBetweenFanOuts ==
    /\ [](pendingEvolve # {} => Outstanding("epoch") = 0)
    /\ [][(agentObjects' # agentObjects \/ activeAgents' # activeAgents)
            => /\ InFlight = 0
               /\ \A l \in Limiters : limQueue[l] = << >>
               /\ pendingEvolve = {}]_vars

\* an accepted variant and a mounted agent were written to the roster, and
\* the shadow trials of a later generation are in flight
C29_Witness ==
    /\ \E id \in PrimaryIds : agentObjects[id].mutableStrategy = "v1"
    /\ activeAgents # AgentsKeys
    /\ phase = "mutation"
    /\ InFlight > 0

\* state[key] reads a value: the key is an own property of the state object
\* or one it inherits
Readable(tree, key) == Lookup(tree, objectPrototype, InVariables(<< >>), key).found

StateKeys == {<<"g">>, <<"s">>, <<"c">>}

\* C21: running episodes never changes the initial state object the
\* Environments were built from, nor the object an actor handed in as a
\* mutation's value; nothing an episode wrote can be read in the initial
\* state, and an Environment built from the initial state starts from its
\* content whatever earlier episodes wrote
C21_InitialStateIsNeverWritten ==
    /\ initialState = InitialVariables
    /\ valueObject = ObjectValue
    /\ \A key \in StateKeys :
          Readable(initialState, key) <=> <<key>> \in DOMAIN InitialVariables
    /\ pc = "idle" =>
          /\ variables = InitialVariables
          /\ \A key \in StateKeys :
                Readable(variables, key) <=> <<key>> \in DOMAIN InitialVariables

\* the texts share a run of n characters
SharesRun(a, b, n) ==
    \E i \in 1..(Len(a) - n + 1), j \in 1..(Len(b) - n + 1) :
        SubSeq(a, i, i + n - 1) = SubSeq(b, j, j + n - 1)

\* C30: the hint stored in state.injections.capitalizer_hint contains no run
\* of more than 20 characters of the monologue of an actor other than the
\* speaker, for the log entries the Capitalizer was given
C30_HintQuotesNoMonologue ==
    capPc = "injected" =>
        \A k \in 1..Len(recentLogs) :
            recentLogs[k].speakerId # "agent_a" =>
                ~SharesRun(capitalizer_hint, recentLogs[k].internal_monologue,
                           FragmentMinLength + 1)

(***************************************************************************)
(* Properties of the episode loop: context maintenance, penalized skips,   *)
(* speaker rotation, permission violations and termination                 *)
(***************************************************************************)
\* C35: when a loop iteration of runEpisode has finished with turn_number a
\* positive multiple of summarization_frequency, the action log holds at
\* most 2 x summarization_frequency entries, and these are the most recent
\* entries pushed in the episode, in the order they were pushed
C35_LogPrunedToMostRecent ==
    (pc = "loop" /\ turn_number > 0 /\ turn_number % SummarizationFrequency = 0) =>
        /\ Len(actionLogs) <= 2 * SummarizationFrequency
        /\ Len(actionLogs) <= Len(appendedLog)
        /\ actionLogs = SubSeq(appendedLog, Len(appendedLog) - Len(actionLogs) + 1,
                               Len(appendedLog))
        /\ Len(appendedLog) > 2 * SummarizationFrequency =>
               Len(actionLogs) = 2 * SummarizationFrequency

\* entries were dropped from the log of a running episode
C35_Witness ==
    /\ pc = "loop"
    /\ turn_number > 0
    /\ turn_number % SummarizationFrequency = 0
    /\ Len(appendedLog) > 2 * SummarizationFrequency
    /\ Len(actionLogs) = 2 * SummarizationFrequency
    /\ emitted # << >>
    /\ emitted[Len(emitted)] = Event("turn:penalty", SummarizerId)

\* what no part of a penalized skip writes
SkipFrame ==
    UNCHANGED <<variables, objectPrototype, actionLogs, appendedLog, lastProposalWasFinal,
                is_terminal, terminationReason, turnOrder, agentPermissions,
                createdAgentIds, initialState>>

\* the steps of a call of step that ends as a penalized skip: the call, the
\* interjection of a wired Capitalizer, the attempts that fail validation,
\* the penalty and the return
PenalizedSkipSteps ==
    /\ (stepPc \notin {"capitalizer", "proposeAction"}
          /\ stepPc' \in {"capitalizer", "proposeAction"})
          => /\ SkipFrame
             /\ UNCHANGED <<turn_number, penaltyCount, capitalizer_hint>>
             /\ current_speaker_id' = Speaker
    /\ stepPc = "capitalizer"
          => /\ SkipFrame
             /\ UNCHANGED <<turn_number, penaltyCount, current_speaker_id>>
             /\ current_speaker_id = Speaker
             /\ stepPc' = "proposeAction"
    /\ (stepPc = "proposeAction" /\ stepPc' \in {"proposeAction", "penalty"})
          => /\ SkipFrame
             /\ UNCHANGED <<turn_number, current_speaker_id, capitalizer_hint>>
             /\ current_speaker_id = Speaker
             /\ penaltyCount' =
                   IF stepPc' = "penalty"
                   THEN [penaltyCount EXCEPT ![Speaker] = @ + 1] ELSE penaltyCount
    /\ stepPc = "penalty"
          => /\ SkipFrame
             /\ UNCHANGED <<penaltyCount, current_speaker_id, capitalizer_hint>>
             /\ turn_number' = turn_number + 1
             /\ stepPc' = "returned"

\* a call of step has returned from a penalized skip
PenalizedSkipReturned ==
    /\ stepPc = "returned"
    /\ lastResponses # << >>
    /\ lastResponses[Len(lastResponses)] = "invalid"

\* C36: a penalized skip applies no mutation and pushes no log entry: from
\* the call of step, through the calls of proposeAction that fail validation
\* and the penalty, to the return, step leaves variables, the action log and
\* lastProposalWasFinal as they were, and changes only current_speaker_id,
\* the penalty count of the speaker (by one) and turn_number (by one): the
\* state it returns with holds the capitalizer_hint it was called with
C36_PenalizedSkipChangesOnly ==
    /\ [][PenalizedSkipSteps]_vars
    /\ [](PenalizedSkipReturned => capitalizer_hint = hintAtCall)

\* C36 as amended: a penalized skip leaves variables, the action log and
\* lastProposalWasFinal as they were; it writes current_speaker_id when it
\* is called, raises the penalty count of the speaker by one when the retry
\* budget is used up, and turn_number by one when it returns; with a
\* Capitalizer wired it also writes state.injections.capitalizer_hint, in the
\* interjection before the first attempt and nowhere else
C36_PenalizedSkipFrame == [][PenalizedSkipSteps]_vars

\* a speaker was skipped with a penalty right after a turn that proposed a
\* resolution and changed the variables, the Capitalizer's hint was stored
\* on the way, and the call of step has returned
C36_Witness ==
    /\ PenalizedSkipReturned
    /\ penaltyCount[current_speaker_id] = 1
    /\ lastProposalWasFinal
    /\ actionLogs # << >>
    /\ variables # InitialVariables
    /\ capitalizer_hint # hintAtCall

\* the slot of the turn order whose turn it is at turn t
SlotOf(t) == turnOrder[(t % Len(turnOrder)) + 1]

\* C37: in an episode (the turn order does not change while it runs) every
\* call of step that finds an agent sets current_speaker_id to
\* turnOrder[turn_number mod k] before it calls the actor, and it is that
\* speaker at every call of proposeAction, whatever the outcome; every actor
\* entry of turn t is by the agent of slot t mod k; and a penalized skip at
\* turn t returns with turn_number t + 1, so that the agent of slot
\* (t + 1) mod k is the next to speak
C37_SpeakerFollowsTurnOrder ==
    [][(pc \in {"loop", "step"}) =>
          /\ turnOrder' = turnOrder
          /\ (StepStarted /\ stepPc' # "threw") => current_speaker_id' = SlotOf(turn_number)
          /\ stepPc = "proposeAction" =>
                /\ current_speaker_id = SlotOf(turn_number)
                /\ current_speaker_id' = current_speaker_id
          /\ \A i \in 1..Len(appendedLog') :
                appendedLog'[i].speakerId # DisruptorInfoId =>
                    appendedLog'[i].speakerId = SlotOf(appendedLog'[i].turn)
          /\ stepPc = "penalty" =>
                /\ current_speaker_id' = SlotOf(turn_number' - 1)
                /\ turn_number' = turn_number + 1]_vars

C37_Witness ==
    /\ pc = "loop"
    /\ Len(turnOrder) = 2
    /\ penaltyCount["agent_a"] = 1
    /\ turn_number = 2
    /\ Len(appendedLog) >= 1
    /\ appendedLog[1].turn = 1
    /\ appendedLog[1].speakerId = turnOrder[2]
    /\ current_speaker_id = turnOrder[2]

\* what a step that ends with a permission violation leaves as it was
ViolationFrame ==
    UNCHANGED <<variables, objectPrototype, actionLogs, appendedLog, turn_number,
                is_terminal>>

\* C38: the permission check is all-or-nothing for a proposal: when a
\* mutation of the proposal is not permitted for the speaker, step raises
\* the permission violation and has applied none of the proposal's
\* mutations, permitted ones included; variables, the action log,
\* turn_number and is_terminal are as they were when step was called (the
\* call and the retries before the proposal write none of them)
C38_ViolationAppliesNothing ==
    [][ /\ stepPc' = "proposeAction" => ViolationFrame
        /\ (stepPc = "proposeAction" /\ raised' = "PermissionViolationError")
              => /\ ~AllPermitted(agentPermissions, current_speaker_id,
                                   proposed'.state_mutations)
                 /\ stepPc' = "threw"
                 /\ ViolationFrame
        /\ stepPc = "threw" => ViolationFrame ]_vars

\* a proposal whose first mutation is permitted and whose second is not has
\* raised the violation
C38_Witness ==
    /\ stepPc = "threw"
    /\ raised = "PermissionViolationError"
    /\ Len(proposed.state_mutations) = 2
    /\ isPermitted(agentPermissions, current_speaker_id, proposed.state_mutations[1].path)
    /\ ~isPermitted(agentPermissions, current_speaker_id, proposed.state_mutations[2].path)
    /\ turn_number > 0

TerminationReasons == {"timeout", "abort_episode", "agreement", "token_limit", "corrupted"}

\* C39: when runEpisode returns, is_terminal of the final state is false
\* exactly when the termination reason is timeout, and true for the reasons
\* abort_episode, agreement, token_limit and corrupted
C39_TerminalUnlessTimeout ==
    pc = "returned" =>
        /\ terminationReason \in TerminationReasons
        /\ is_terminal <=> terminationReason # "timeout"

\* an episode returned at the turn cap with reason timeout after a penalized
\* skip and a turn that proposed a resolution
C39_Witness ==
    /\ pc = "returned"
    /\ terminationReason = "timeout"
    /\ ~is_terminal
    /\ turn_number = MaxTurnsPerEpisode
    /\ lastProposalWasFinal
    /\ \E id \in PrimaryIds : penaltyCount[id] > 0

\* the turns of the running episode in which id was called and no entry of
\* the actor was pushed: the turns below turn_number without an entry, and
\* the turn at which the episode was corrupted
PenalizedTurnsOf(id) ==
    Cardinality({t \in 0..(turn_number - 1) :
                    /\ SlotOf(t) = id
                    /\ \A i \in 1..Len(appendedLog) : appendedLog[i].turn # t})
        + (IF terminationReason = "corrupted" /\ current_speaker_id = id THEN 1 ELSE 0)

\* C40: penalty counts are per speaker and per episode: every runEpisode
\* starts with all counts at zero; during the episode no count goes down,
\* and a valid turn writes none; whenever the loop of runEpisode has the
\* control, the count of a speaker is the number of its own penalized turns
\* of this episode, and the episode is corrupted exactly when the count of
\* one single speaker has reached forced_concession_threshold, whatever the
\* counts of the others add up to
C40_PenaltiesPerSpeakerAndEpisode ==
    [][ /\ (pc \in {"idle", "returned"} /\ pc' = "loop") => penaltyCount' = NoPenalties
        /\ pc \in {"loop", "step"} =>
              \A id \in AllIds : penaltyCount'[id] >= penaltyCount[id]
        /\ (ValidTurnDone' \/ stepPc \in {"tension", "info", "complete"})
              => penaltyCount' = penaltyCount
        /\ pc' = "loop" =>
              /\ \A id \in AllIds : penaltyCount'[id] = PenalizedTurnsOf(id)'
              /\ (terminationReason' = "corrupted") <=>
                    \E id \in AllIds :
                        PenalizedTurnsOf(id)' >= ForcedConcessionThreshold ]_vars

C40_Witness ==
    /\ pc = "loop"
    /\ Len(turnOrder) = 2
    /\ Len(transcript) = 1
    /\ transcript[1].turn = 1
    /\ turn_number = 2
    /\ penaltyCount["agent_a"] = 1
    /\ penaltyCount["agent_b"] = 1
    /\ ~is_terminal
    /\ terminationReason = "timeout"

(***************************************************************************)
(* Properties of the turn order extension                                  *)
(***************************************************************************)
\* q is floor(L / N)
IsFloor(q, L, N) == q * N <= L /\ L < (q + 1) * N

\* extended is order with id placed immediately after every N-th slot: the
\* i-th previous entry has moved up by the number of ids placed before it,
\* and the slot after the k-th group of N previous entries holds id
EveryNthSlot(order, id, N, extended, q) ==
    /\ Len(extended) = Len(order) + q
    /\ \A i \in 1..Len(order) : extended[i + ((i - 1) \div N)] = order[i]
    /\ \A k \in 1..q : extended[k * N + k] = id

\* the transition is a successful mountAgent(spec)
MountedNow(spec) ==
    /\ mountResult' = "mounted"
    /\ emitted' = <<Event("agent:created", spec.agent_id)>>
    /\ turnOrder' = ExtendTurnOrder(turnOrder, spec.agent_id,
                                    parseTurnInjection(spec.turn_injection_logic))
    /\ MountAgent(spec)

\* C33: a successful mountAgent with interval N (parsed from
\* speak_every_N_turns, 1 when the string does not parse) turns a turn order
\* of length L into one of length L + floor(L / N) in which the previous
\* entries keep their relative order and the new id stands immediately after
\* every N-th previous slot
C33_MountInsertsEveryNth ==
    [][\A spec \in MountSpecs :
          MountedNow(spec) =>
              \E q \in 0..Len(turnOrder) :
                  /\ IsFloor(q, Len(turnOrder), parseTurnInjection(spec.turn_injection_logic))
                  /\ EveryNthSlot(turnOrder, spec.agent_id,
                                  parseTurnInjection(spec.turn_injection_logic),
                                  turnOrder', q)]_vars

(***************************************************************************)
(* Properties of the creation cooldown                                     *)
(***************************************************************************)
\* C34: after a creation attempt in generation g the Provisioner is not
\* triggered again in the generations g + 1 .. g + creation_cooldown_generations
C34_CreationCooldown ==
    [][(phase # "approval" /\ phase' = "approval") =>
          \/ lastCreationAttempt = -1
          \/ generation > lastCreationAttempt + CreationCooldownGenerations]_vars

(***************************************************************************)
(* Properties of the retry context                                         *)
(***************************************************************************)
\* C31: a validation-error note stored on a shared actor by a failed attempt
\* of one episode is put into the prompt, and cleared, only by a
\* proposeAction call of that same episode
C31_NoteStaysInItsEpisode ==
    lastCall.note # NoNote => lastCall.note.episode = lastCall.episode

\* C32: the retry context lives for a single turn: a step leaves no pending
\* note on the actor, so the first attempt of a turn carries no
\* validation-error note of an earlier turn of its episode
C32_FirstAttemptCarriesNoNote ==
    ~(/\ lastCall.attempt = 0
      /\ lastCall.note # NoNote
      /\ lastCall.note.episode = lastCall.episode)

====
